---- MODULE Spec2Model ----
(***************************************************************************)
(* PropForecast: the financial calculator (transfer duty, attorney fees,   *)
(* bond repayment, yields, cash flow, ROI, breakeven, forecast) modelled   *)
(* as operators over JavaScript Numbers, and a specification that applies  *)
(* each exported function to inputs drawn from bounded sets; the chart     *)
(* data of the presentation layer; and the application shell, with its     *)
(* two input components and the timeouts of its submissions.               *)
(*                                                                         *)
(* Numbers.  A JavaScript Number is modelled as a record                   *)
(*    [k |-> "fin" | "inf" | "nan", s |-> 1 | -1, m |-> magnitude]         *)
(* A finite number is a signed decimal fixed-point value with FracLimbs    *)
(* limbs (4 decimal digits each) after the point and an unbounded integer  *)
(* part; its magnitude is a little-endian sequence of limbs.  Sums,        *)
(* differences and every product or quotient that is representable are     *)
(* exact; other products and quotients are rounded to the nearest          *)
(* representable value.  Binary rounding error of IEEE doubles, overflow   *)
(* to Infinity at 1.8e308 and the sign of zero are not modelled.           *)
(***************************************************************************)
EXTENDS Integers, Sequences, FiniteSets, TLC

Base == 100 * 100

\* number of limbs after the decimal point
FracLimbs == 3

(***************************************************************************)
(* Natural numbers of unbounded size: little-endian limbs, no zero at the  *)
(* top end, zero is the empty sequence.                                    *)
(***************************************************************************)
RECURSIVE NNorm(_)
NNorm(a) ==
  IF a = <<>> THEN <<>>
  ELSE IF a[Len(a)] = 0 THEN NNorm(SubSeq(a, 1, Len(a) - 1))
  ELSE a

RECURSIVE NFromInt(_)
NFromInt(n) ==
  IF n = 0 THEN <<>> ELSE <<n % Base>> \o NFromInt(n \div Base)

Limb(a, i) == IF i >= 1 /\ i <= Len(a) THEN a[i] ELSE 0

Rest(a) == IF a = <<>> THEN <<>> ELSE Tail(a)

RECURSIVE NAddC(_, _, _)
NAddC(a, b, c) ==
  IF a = <<>> /\ b = <<>> THEN (IF c = 0 THEN <<>> ELSE <<c>>)
  ELSE LET x == Limb(a, 1) + Limb(b, 1) + c
       IN  <<x % Base>> \o NAddC(Rest(a), Rest(b), x \div Base)

NAdd(a, b) == NAddC(a, b, 0)

\* a - b for a >= b, before normalisation
RECURSIVE NSubB(_, _, _)
NSubB(a, b, c) ==
  IF a = <<>> THEN <<>>
  ELSE LET x == Limb(a, 1) - Limb(b, 1) - c
       IN  IF x < 0 THEN <<x + Base>> \o NSubB(Rest(a), Rest(b), 1)
           ELSE <<x>> \o NSubB(Rest(a), Rest(b), 0)

NSub(a, b) == NNorm(NSubB(a, b, 0))

\* -1, 0 or 1 as a < b, a = b, a > b
RECURSIVE NCmpFrom(_, _, _)
NCmpFrom(a, b, i) ==
  IF i = 0 THEN 0
  ELSE IF a[i] < b[i] THEN -1
  ELSE IF a[i] > b[i] THEN 1
  ELSE NCmpFrom(a, b, i - 1)

NCmp(a, b) ==
  IF Len(a) < Len(b) THEN -1
  ELSE IF Len(a) > Len(b) THEN 1
  ELSE NCmpFrom(a, b, Len(a))

RECURSIVE NMulSmallC(_, _, _)
NMulSmallC(a, d, c) ==
  IF a = <<>> THEN (IF c = 0 THEN <<>> ELSE <<c>>)
  ELSE LET x == a[1] * d + c
       IN  <<x % Base>> \o NMulSmallC(Tail(a), d, x \div Base)

NMulSmall(a, d) == IF d = 0 THEN <<>> ELSE NMulSmallC(a, d, 0)

NShift(a, n) == IF a = <<>> THEN <<>> ELSE [i \in 1..n |-> 0] \o a

RECURSIVE NMul(_, _)
NMul(a, b) ==
  IF a = <<>> \/ b = <<>> THEN <<>>
  ELSE NAdd(NMulSmall(a, b[1]), NShift(NMul(a, Tail(b)), 1))

\* the largest q in lo..hi with b * q <= r  (b * lo <= r is given)
RECURSIVE QSearch(_, _, _, _)
QSearch(r, b, lo, hi) ==
  IF lo = hi THEN lo
  ELSE LET mid == (lo + hi + 1) \div 2
       IN  IF NCmp(NMulSmall(b, mid), r) <= 0
           THEN QSearch(r, b, mid, hi)
           ELSE QSearch(r, b, lo, mid - 1)

\* the first guess of a quotient limb of r \div b, from the top limbs, for
\* r < b * Base and a top limb of b of at least Base \div 2: the quotient
\* limb is the guess or up to 2 less
QGuess(r, b) ==
  IF Len(r) < Len(b) THEN 0
  ELSE IF Len(r) = Len(b) THEN r[Len(b)] \div b[Len(b)]
  ELSE IF (r[Len(b) + 1] * Base + r[Len(b)]) \div b[Len(b)] > Base - 1
  THEN Base - 1
  ELSE (r[Len(b) + 1] * Base + r[Len(b)]) \div b[Len(b)]

QDigit(r, b, guess) == QSearch(r, b, IF guess > 2 THEN guess - 2 ELSE 0, guess)

\* long division, limb i of a downwards; r the running remainder
RECURSIVE NDivRec(_, _, _, _, _)
NDivStep(a, b, i, r1, q, d) ==
  NDivRec(a, b, i - 1, NSub(r1, NMulSmall(b, d)), <<d>> \o q)

NDivRec(a, b, i, r, q) ==
  IF i = 0 THEN [q |-> NNorm(q), r |-> r, b |-> b]
  ELSE NDivStep(a, b, i, NNorm(<<a[i]>> \o r), q,
                QDigit(NNorm(<<a[i]>> \o r), b,
                       QGuess(NNorm(<<a[i]>> \o r), b)))

\* quotient q of a \div b for b # 0; a and b are first scaled to bring the
\* top limb of b to Base \div 2 or more, and r and b are the remainder and
\* the divisor at that scale
NDivMod(a, b) ==
  NDivRec(NMulSmall(a, Base \div (b[Len(b)] + 1)),
          NMulSmall(b, Base \div (b[Len(b)] + 1)),
          Len(NMulSmall(a, Base \div (b[Len(b)] + 1))), <<>>, <<>>)

(***************************************************************************)
(* JavaScript Numbers.                                                     *)
(***************************************************************************)
Fin(s, m) == [k |-> "fin", s |-> IF m = <<>> THEN 1 ELSE s, m |-> m]

PosInf == [k |-> "inf", s |-> 1, m |-> <<>>]

NegInf == [k |-> "inf", s |-> -1, m |-> <<>>]

NaN == [k |-> "nan", s |-> 1, m |-> <<>>]

Inf(s) == IF s = 1 THEN PosInf ELSE NegInf

\* the Number of the decimal literal n / 10^e, for e <= 4 * FracLimbs
Dec(n, e) ==
  Fin(IF n < 0 THEN -1 ELSE 1,
      NShift(NMulSmall(NFromInt(IF n < 0 THEN -n ELSE n),
                       <<1, 10, 100, 1000>>[((4 * FracLimbs - e) % 4) + 1]),
             (4 * FracLimbs - e) \div 4))

\* the Number of an integer literal
Num(n) == Dec(n, 0)

IsFin(a) == a.k = "fin"

IsZero(a) == a.k = "fin" /\ a.m = <<>>

Neg(a) == IF a.k = "nan" THEN NaN
          ELSE IF a.k = "inf" THEN Inf(-a.s)
          ELSE Fin(-a.s, a.m)

\* a + b
Add(a, b) ==
  IF a.k = "nan" \/ b.k = "nan" THEN NaN
  ELSE IF a.k = "inf" /\ b.k = "inf" THEN (IF a.s = b.s THEN a ELSE NaN)
  ELSE IF a.k = "inf" THEN a
  ELSE IF b.k = "inf" THEN b
  ELSE IF a.s = b.s THEN Fin(a.s, NAdd(a.m, b.m))
  ELSE IF NCmp(a.m, b.m) >= 0 THEN Fin(a.s, NSub(a.m, b.m))
  ELSE Fin(b.s, NSub(b.m, a.m))

\* a - b
Sub(a, b) == Add(a, Neg(b))

\* a natural with 2 * FracLimbs limbs after the point, rounded to FracLimbs
NRound(p) ==
  LET q == SubSeq(p, FracLimbs + 1, Len(p))
  IN  IF 2 * Limb(p, FracLimbs) >= Base THEN NAdd(q, <<1>>) ELSE q

\* a * b
Mul(a, b) ==
  IF a.k = "nan" \/ b.k = "nan" THEN NaN
  ELSE IF a.k = "inf" \/ b.k = "inf"
       THEN (IF IsZero(a) \/ IsZero(b) THEN NaN ELSE Inf(a.s * b.s))
  ELSE Fin(a.s * b.s, NRound(NMul(a.m, b.m)))

\* a / b
Div(a, b) ==
  IF a.k = "nan" \/ b.k = "nan" THEN NaN
  ELSE IF a.k = "inf" THEN (IF b.k = "inf" THEN NaN ELSE Inf(a.s * b.s))
  ELSE IF b.k = "inf" THEN Fin(1, <<>>)
  ELSE IF IsZero(b) THEN (IF IsZero(a) THEN NaN ELSE Inf(a.s))
  ELSE LET d == NDivMod(NShift(a.m, FracLimbs), b.m)
       IN  Fin(a.s * b.s,
               IF NCmp(NMulSmall(d.r, 2), d.b) >= 0
               THEN NAdd(d.q, <<1>>) ELSE d.q)

\* -1, 0, 1 for two numbers that are not NaN
Cmp(a, b) ==
  IF a.k = "inf" /\ b.k = "inf"
  THEN (IF a.s = b.s THEN 0 ELSE a.s)
  ELSE IF a.k = "inf" THEN a.s
  ELSE IF b.k = "inf" THEN -b.s
  ELSE IF a.s # b.s THEN a.s
  ELSE a.s * NCmp(a.m, b.m)

Ordered(a, b) == a.k # "nan" /\ b.k # "nan"

\* a < b, a <= b, a > b, a >= b, a === b : false when either is NaN
Lt(a, b) == Ordered(a, b) /\ Cmp(a, b) < 0

Le(a, b) == Ordered(a, b) /\ Cmp(a, b) <= 0

Gt(a, b) == Ordered(a, b) /\ Cmp(a, b) > 0

Ge(a, b) == Ordered(a, b) /\ Cmp(a, b) >= 0

Eq(a, b) == Ordered(a, b) /\ Cmp(a, b) = 0

\* the limbs before the point, and whether any limb after it is non-zero
IntPart(a) == SubSeq(a.m, FracLimbs + 1, Len(a.m))

HasFrac(a) == \E i \in 1..FracLimbs : Limb(a.m, i) # 0

\* Math.ceil
Ceil(a) ==
  IF a.k # "fin" THEN a
  ELSE IF ~HasFrac(a) THEN a
  ELSE IF a.s = 1 THEN Fin(1, NShift(NAdd(IntPart(a), <<1>>), FracLimbs))
  ELSE Fin(-1, NShift(IntPart(a), FracLimbs))

IsInteger(a) == a.k = "fin" /\ ~HasFrac(a)

\* the value of a whole Number below Base * Base, as an integer
ToInt(a) == a.s * (Limb(a.m, FracLimbs + 1) + Base * Limb(a.m, FracLimbs + 2))

\* x to the n-th power for a natural n, by repeated squaring
RECURSIVE PowNat(_, _)
PowNat(x, n) ==
  IF n = 0 THEN Num(1)
  ELSE LET h == PowNat(x, n \div 2)
           sq == Mul(h, h)
       IN  IF n % 2 = 1 THEN Mul(sq, x) ELSE sq

\* one step of Newton's iteration for the n-th root of x
RootStep(x, n, y) ==
  Div(Add(Mul(Num(n - 1), y), Div(x, PowNat(y, n - 1))), Num(n))

RECURSIVE RootNewton(_, _, _)
RootFrom(x, n, y, next) ==
  IF Lt(next, y) THEN RootNewton(x, n, next) ELSE y

RootNewton(x, n, y) == RootFrom(x, n, y, RootStep(x, n, y))

\* the n-th root of a finite x >= 0; the iteration starts above the root,
\* at 1 + (x - 1) / n, and descends to it
Root(x, n) ==
  IF IsZero(x) THEN x
  ELSE RootNewton(x, n, Div(Add(Num(n - 1), x), Num(n)))

\* Math.pow, for an exponent that is whole or the reciprocal of a whole
\* number
Pow(x, y) ==
  IF y.k = "nan" THEN NaN
  ELSE IF IsZero(y) THEN Num(1)
  ELSE IF x.k = "nan" THEN NaN
  ELSE IF IsInteger(y)
       THEN (IF y.s = 1 THEN PowNat(x, ToInt(y))
             ELSE Div(Num(1), PowNat(x, -ToInt(y))))
  ELSE IF Lt(x, Num(0)) THEN NaN
  ELSE IF x.k = "inf" THEN PosInf
  ELSE Root(x, ToInt(Div(Num(1), y)))

\* an argument that the caller left out
Undefined == [k |-> "undef", s |-> 1, m |-> <<>>]

\* the local variables v of a function body, after `const name = value`
Bind(v, name, value) ==
  [f \in DOMAIN v \cup {name} |-> IF f = name THEN value ELSE v[f]]

(***************************************************************************)
(* The financial calculator.                                               *)
(***************************************************************************)

\* a band selection with the fourth threshold displaced to 2,400,000, so
\* that the fifth formula is applied below its floor
TransferDutyBand_Displaced(purchasePrice) ==
  IF Le(purchasePrice, Num(1000000)) THEN 1
  ELSE IF Le(purchasePrice, Num(1375000)) THEN 2
  ELSE IF Le(purchasePrice, Num(1925000)) THEN 3
  ELSE IF Le(purchasePrice, Num(2400000)) THEN 4
  ELSE IF Le(purchasePrice, Num(11000000)) THEN 5
  ELSE 6

\* the branch of the if-chain that a price selects
TransferDutyBand(purchasePrice) ==
  IF Le(purchasePrice, Num(1000000)) THEN 1
  ELSE IF Le(purchasePrice, Num(1375000)) THEN 2
  ELSE IF Le(purchasePrice, Num(1925000)) THEN 3
  ELSE IF Le(purchasePrice, Num(2475000)) THEN 4
  ELSE IF Le(purchasePrice, Num(11000000)) THEN 5
  ELSE 6

\* a schedule whose second band charges 4% instead of 3%
TransferDutyFormula_Rate4(b, purchasePrice) ==
  CASE b = 1 -> Num(0)
    [] b = 2 -> Mul(Sub(purchasePrice, Num(1000000)), Dec(4, 2))
    [] b = 3 -> Add(Num(11250),
                    Mul(Sub(purchasePrice, Num(1375000)), Dec(6, 2)))
    [] b = 4 -> Add(Num(44250),
                    Mul(Sub(purchasePrice, Num(1925000)), Dec(8, 2)))
    [] b = 5 -> Add(Num(88250),
                    Mul(Sub(purchasePrice, Num(2475000)), Dec(11, 2)))
    [] b = 6 -> Add(Num(1026000),
                    Mul(Sub(purchasePrice, Num(11000000)), Dec(13, 2)))

\* the value returned in branch b
TransferDutyFormula(b, purchasePrice) ==
  CASE b = 1 -> Num(0)
    [] b = 2 -> Mul(Sub(purchasePrice, Num(1000000)), Dec(3, 2))
    [] b = 3 -> Add(Num(11250),
                    Mul(Sub(purchasePrice, Num(1375000)), Dec(6, 2)))
    [] b = 4 -> Add(Num(44250),
                    Mul(Sub(purchasePrice, Num(1925000)), Dec(8, 2)))
    [] b = 5 -> Add(Num(88250),
                    Mul(Sub(purchasePrice, Num(2475000)), Dec(11, 2)))
    [] b = 6 -> Add(Num(1026000),
                    Mul(Sub(purchasePrice, Num(11000000)), Dec(13, 2)))

calculateTransferDuty(purchasePrice) ==
  TransferDutyFormula(TransferDutyBand(purchasePrice), purchasePrice)

\* a band selection whose upper bounds are exclusive
AttorneyFeeBand_Exclusive(purchasePrice) ==
  IF Lt(purchasePrice, Num(100000)) THEN 1
  ELSE IF Lt(purchasePrice, Num(500000)) THEN 2
  ELSE IF Lt(purchasePrice, Num(1000000)) THEN 3
  ELSE IF Lt(purchasePrice, Num(5000000)) THEN 4
  ELSE 5

\* the branch of the if-chain of calculateAttorneyFees that a price selects
AttorneyFeeBand(purchasePrice) ==
  IF Le(purchasePrice, Num(100000)) THEN 1
  ELSE IF Le(purchasePrice, Num(500000)) THEN 2
  ELSE IF Le(purchasePrice, Num(1000000)) THEN 3
  ELSE IF Le(purchasePrice, Num(5000000)) THEN 4
  ELSE 5

\* the baseFee assigned in branch b
AttorneyBaseFee(b, purchasePrice) ==
  CASE b = 1 -> Num(4500)
    [] b = 2 -> Add(Num(4500),
                    Mul(Sub(purchasePrice, Num(100000)), Dec(15, 3)))
    [] b = 3 -> Add(Num(10500),
                    Mul(Sub(purchasePrice, Num(500000)), Dec(1, 2)))
    [] b = 4 -> Add(Num(15500),
                    Mul(Sub(purchasePrice, Num(1000000)), Dec(7, 3)))
    [] b = 5 -> Add(Num(43500),
                    Mul(Sub(purchasePrice, Num(5000000)), Dec(3, 3)))

\* return baseFee * 1.15
calculateAttorneyFees(purchasePrice) ==
  Mul(AttorneyBaseFee(AttorneyFeeBand(purchasePrice), purchasePrice),
      Dec(115, 2))

\* a rate that is not divided over the twelve months of a year
MonthlyInterestRate_Annual(annualInterestRate) ==
  Div(annualInterestRate, Num(100))

\* const monthlyInterestRate = annualInterestRate / 100 / 12
MonthlyInterestRate(annualInterestRate) ==
  Div(Div(annualInterestRate, Num(100)), Num(12))

\* a test that also sends negative rates to the zero-rate branch
ZeroRateBranch_NonPositive(monthlyInterestRate) ==
  Le(monthlyInterestRate, Num(0))

\* the test of the zero-rate branch: monthlyInterestRate === 0
ZeroRateBranch(monthlyInterestRate) == Eq(monthlyInterestRate, Num(0))

\* the two return statements of calculateMonthlyBondRepayment
BondRepayment(principal, monthlyInterestRate, numberOfPayments) ==
  IF ZeroRateBranch(monthlyInterestRate)
  THEN Div(principal, numberOfPayments)
  ELSE Div(Mul(principal,
               Mul(monthlyInterestRate,
                   Pow(Add(Num(1), monthlyInterestRate), numberOfPayments))),
           Sub(Pow(Add(Num(1), monthlyInterestRate), numberOfPayments),
               Num(1)))

calculateMonthlyBondRepayment(principal, annualInterestRate, termYears) ==
  BondRepayment(principal, MonthlyInterestRate(annualInterestRate),
                Mul(termYears, Num(12)))

\* a record whose total leaves the electronic transfer fee out
PurchaseCostsRecord_ThreeSummands(transferDuty, attorneyFees, deedsOfficeRegistration, electronicallyFacilitatedTransfer) ==
  [transferDuty |-> transferDuty,
   attorneyFees |-> attorneyFees,
   deedsOfficeRegistration |-> deedsOfficeRegistration,
   electronicallyFacilitatedTransfer |-> electronicallyFacilitatedTransfer,
   total |-> Add(Add(transferDuty, attorneyFees), deedsOfficeRegistration)]

\* the record that calculateTotalPurchaseCosts returns
PurchaseCostsRecord(transferDuty, attorneyFees, deedsOfficeRegistration, electronicallyFacilitatedTransfer) ==
  [transferDuty |-> transferDuty,
   attorneyFees |-> attorneyFees,
   deedsOfficeRegistration |-> deedsOfficeRegistration,
   electronicallyFacilitatedTransfer |-> electronicallyFacilitatedTransfer,
   total |-> Add(Add(Add(transferDuty, attorneyFees),
                     deedsOfficeRegistration),
                 electronicallyFacilitatedTransfer)]

calculateTotalPurchaseCosts(purchasePrice) ==
  PurchaseCostsRecord(calculateTransferDuty(purchasePrice),
                      calculateAttorneyFees(purchasePrice),
                      Num(1500), Num(1800))

\* the record that calculateMonthlyExpenses returns
MonthlyExpensesRecord(monthlyLevies, monthlyRates, monthlyMaintenance) ==
  [levies |-> monthlyLevies,
   ratesAndTaxes |-> monthlyRates,
   maintenance |-> monthlyMaintenance,
   total |-> Add(Add(monthlyLevies, monthlyRates), monthlyMaintenance)]

calculateMonthlyExpenses(p) ==
  MonthlyExpensesRecord(p.monthlyLevies, p.monthlyRates,
    Div(Mul(p.purchasePrice, Div(p.maintenancePercentage, Num(100))),
        Num(12)))

\* an effective rent that is clamped at 0 for a vacancy above 100
calculateEffectiveRentalIncome_Clamped(expectedRent, vacancyRate) ==
  IF Gt(vacancyRate, Num(100)) THEN Num(0)
  ELSE Mul(expectedRent, Sub(Num(1), Div(vacancyRate, Num(100))))

calculateEffectiveRentalIncome(expectedRent, vacancyRate) ==
  Mul(expectedRent, Sub(Num(1), Div(vacancyRate, Num(100))))

\* gross yields on the rent after vacancy
calculateYields_GrossAfterVacancy(p) ==
  [grossYieldOnPrice |->
     Mul(Div(Mul(p.effectiveRent, Num(12)), p.purchasePrice), Num(100)),
   grossYieldOnInvestment |->
     Mul(Div(Mul(p.effectiveRent, Num(12)), p.totalPurchaseCost), Num(100)),
   netYieldOnPrice |->
     Mul(Div(Mul(Sub(p.effectiveRent, p.monthlyExpenses), Num(12)),
             p.purchasePrice), Num(100)),
   netYieldOnInvestment |->
     Mul(Div(Mul(Sub(p.effectiveRent, p.monthlyExpenses), Num(12)),
             p.totalPurchaseCost), Num(100))]

calculateYields(p) ==
  [grossYieldOnPrice |->
     Mul(Div(Mul(p.expectedRent, Num(12)), p.purchasePrice), Num(100)),
   grossYieldOnInvestment |->
     Mul(Div(Mul(p.expectedRent, Num(12)), p.totalPurchaseCost), Num(100)),
   netYieldOnPrice |->
     Mul(Div(Mul(Sub(p.effectiveRent, p.monthlyExpenses), Num(12)),
             p.purchasePrice), Num(100)),
   netYieldOnInvestment |->
     Mul(Div(Mul(Sub(p.effectiveRent, p.monthlyExpenses), Num(12)),
             p.totalPurchaseCost), Num(100))]

\* the record that calculateCashFlow returns
CashFlowRecord(monthlyCashFlow) ==
  [monthly |-> monthlyCashFlow, annual |-> Mul(monthlyCashFlow, Num(12))]

\* a cash flow before financing, which leaves the bond repayment out
calculateCashFlow_BeforeFinancing(p) ==
  CashFlowRecord(Sub(p.effectiveRent, p.monthlyExpenses))

calculateCashFlow(p) ==
  CashFlowRecord(Sub(Sub(p.effectiveRent, p.monthlyExpenses),
                     p.monthlyBondRepayment))

calculateAppreciation(propertyValue, annualRate, years) ==
  LET futureValue ==
        Mul(propertyValue,
            Pow(Add(Num(1), Div(annualRate, Num(100))), years))
  IN  Sub(futureValue, propertyValue)

\* an estimate that takes the share of the term that has run as the
\* principal portion
calculateEquityBuild_TermShare(monthlyPayment, totalTermYears, yearsToCalculate) ==
  Mul(Mul(Mul(monthlyPayment, Num(12)), yearsToCalculate),
      Div(yearsToCalculate, totalTermYears))

calculateEquityBuild(monthlyPayment, totalTermYears, yearsToCalculate) ==
  LET totalPayments == Mul(Mul(monthlyPayment, Num(12)), yearsToCalculate)
      principalPortion == Mul(totalPayments, Dec(4, 1))
  IN  principalPortion

\* the parameter annualAppreciationRate = 5 of calculateROI
ROIDefaultRate(p) ==
  [p EXCEPT !.annualAppreciationRate =
     IF @ = Undefined THEN Num(5) ELSE @]

\* an initial investment of the deposit alone (the cash put in)
ROIInitialInvestment_DepositOnly(v) ==
  Bind(v, "initialInvestment", v.deposit)

\* const initialInvestment = deposit + (totalPurchaseCost - deposit)
ROIInitialInvestment(v) ==
  Bind(v, "initialInvestment",
       Add(v.deposit, Sub(v.totalPurchaseCost, v.deposit)))

\* the statements of one projection of calculateROI, over `years` years
ROIAppreciation(v, years) ==
  Bind(v, "appreciation",
       calculateAppreciation(v.totalPurchaseCost, v.annualAppreciationRate,
                             Num(years)))

ROICashFlow(v, years) ==
  Bind(v, "cashFlow", Mul(v.annualCashFlow, Num(years)))

ROIEquityBuild(v, years) ==
  Bind(v, "equityBuild",
       calculateEquityBuild(v.monthlyBondRepayment, v.loanTermYears,
                            Num(years)))

ROITotalReturn(v) ==
  Bind(v, "totalReturn",
       Add(Add(v.appreciation, v.cashFlow), v.equityBuild))

ROIPercent(v) ==
  Bind(v, "roi", Mul(Div(v.totalReturn, v.initialInvestment), Num(100)))

ROIAnnualized(v, years) ==
  Bind(v, "annualizedROI",
       Sub(Pow(Add(Num(1), Div(v.roi, Num(100))), Div(Num(1), Num(years))),
           Num(1)))

\* the part of the returned record for one projection
ROIProjectionRecord(v) ==
  [appreciation |-> v.appreciation,
   cashFlow |-> v.cashFlow,
   equityBuild |-> v.equityBuild,
   totalReturn |-> v.totalReturn,
   roi |-> v.roi,
   annualizedROI |-> Mul(v.annualizedROI, Num(100))]

ROIProjection(v, years) ==
  ROIProjectionRecord(
    ROIAnnualized(
      ROIPercent(
        ROITotalReturn(
          ROIEquityBuild(
            ROICashFlow(ROIAppreciation(v, years), years), years))),
      years))

\* the return statement of calculateROI
ROIReturn(v) ==
  [fiveYear |-> ROIProjection(v, 5), tenYear |-> ROIProjection(v, 10)]

calculateROI(p) == ROIReturn(ROIInitialInvestment(ROIDefaultRate(p)))

\* a test that lets a cash flow of exactly zero through to the division
BreakevenUnbounded_Negative(monthlyCashFlow) == Lt(monthlyCashFlow, Num(0))

\* the test of the first return of calculateBreakeven: monthlyCashFlow <= 0
BreakevenUnbounded(monthlyCashFlow) == Le(monthlyCashFlow, Num(0))

\* a return that does not round the months up
BreakevenRecord_Unrounded(initialCashOutflow, monthlyCashFlow) ==
  [months |-> Div(initialCashOutflow, monthlyCashFlow),
   years |-> Div(Div(initialCashOutflow, monthlyCashFlow), Num(12))]

\* the record of the second return of calculateBreakeven
BreakevenMonths(months) == [months |-> months, years |-> Div(months, Num(12))]

\* const months = Math.ceil(initialCashOutflow / monthlyCashFlow), returned
BreakevenRecord(initialCashOutflow, monthlyCashFlow) ==
  BreakevenMonths(Ceil(Div(initialCashOutflow, monthlyCashFlow)))

calculateBreakeven(initialCashOutflow, monthlyCashFlow) ==
  IF BreakevenUnbounded(monthlyCashFlow)
  THEN [months |-> PosInf, years |-> PosInf]
  ELSE BreakevenRecord(initialCashOutflow, monthlyCashFlow)

\* the cash flow assessment
SummaryCashFlowText(f) ==
  IF Gt(f.cashFlow.monthly, Num(500))
  THEN "This property is cash flow positive, generating a healthy monthly surplus. "
  ELSE IF Gt(f.cashFlow.monthly, Num(0))
  THEN "This property is slightly cash flow positive, covering all expenses with a small margin. "
  ELSE IF Gt(f.cashFlow.monthly, Num(-500))
  THEN "This property is slightly cash flow negative, requiring a small monthly contribution. "
  ELSE "This property is significantly cash flow negative, requiring substantial monthly contributions. "

\* the yield assessment
SummaryYieldText(f) ==
  IF Gt(f.yields.netYieldOnInvestment, Num(8))
  THEN "The net yield is excellent compared to South African market averages. "
  ELSE IF Gt(f.yields.netYieldOnInvestment, Num(6))
  THEN "The net yield is good for the South African market. "
  ELSE IF Gt(f.yields.netYieldOnInvestment, Num(4))
  THEN "The net yield is average for the South African market. "
  ELSE "The net yield is below average for the South African market. "

\* the ROI assessment
SummaryROIText(f) ==
  IF Gt(f.roi.tenYear.annualizedROI, Num(15))
  THEN "The 10-year return on investment projection is very strong. "
  ELSE IF Gt(f.roi.tenYear.annualizedROI, Num(10))
  THEN "The 10-year return on investment projection is good. "
  ELSE IF Gt(f.roi.tenYear.annualizedROI, Num(7))
  THEN "The 10-year return on investment projection is moderate. "
  ELSE "The 10-year return on investment projection is below average. "

\* a breakeven assessment that looks at the cash flow first
SummaryBreakevenText_ByCashFlow(f) ==
  IF Le(f.cashFlow.monthly, Num(0))
  THEN "The breakeven period extends beyond 20 years, raising concerns about this investment. "
  ELSE IF Lt(f.breakeven.years, Num(5))
  THEN "You should recover your initial investment relatively quickly. "
  ELSE IF Lt(f.breakeven.years, Num(10))
  THEN "The breakeven period is reasonable for a long-term investment. "
  ELSE IF Lt(f.breakeven.years, Num(20))
  THEN "The breakeven period is quite long, making this a very long-term investment. "
  ELSE "The breakeven period extends beyond 20 years, raising concerns about this investment. "

\* the breakeven assessment
SummaryBreakevenText(f) ==
  IF Lt(f.breakeven.years, Num(5))
  THEN "You should recover your initial investment relatively quickly. "
  ELSE IF Lt(f.breakeven.years, Num(10))
  THEN "The breakeven period is reasonable for a long-term investment. "
  ELSE IF Lt(f.breakeven.years, Num(20))
  THEN "The breakeven period is quite long, making this a very long-term investment. "
  ELSE "The breakeven period extends beyond 20 years, raising concerns about this investment. "

\* an overall assessment that asks a 10-year ROI above 20 of a strong
\* opportunity
SummaryOverallText_Above20(f) ==
  IF Gt(f.roi.tenYear.annualizedROI, Num(20))
     /\ Gt(f.yields.netYieldOnInvestment, Num(6))
  THEN "Overall, this property appears to be a strong investment opportunity."
  ELSE IF Gt(f.roi.tenYear.annualizedROI, Num(8))
          /\ Gt(f.yields.netYieldOnInvestment, Num(4))
  THEN "Overall, this property appears to be a reasonable investment opportunity."
  ELSE IF Gt(f.cashFlow.monthly, Num(0))
  THEN "This property may be worth considering primarily for its positive cash flow, despite modest long-term returns."
  ELSE "This property presents some investment challenges and may require careful consideration of future market trends and personal investment goals."

\* an overall assessment that takes either of the two conditions of a
\* strong opportunity for both
SummaryOverallText_Either(f) ==
  IF Gt(f.roi.tenYear.annualizedROI, Num(12))
     \/ Gt(f.yields.netYieldOnInvestment, Num(6))
  THEN "Overall, this property appears to be a strong investment opportunity."
  ELSE IF Gt(f.roi.tenYear.annualizedROI, Num(8))
          /\ Gt(f.yields.netYieldOnInvestment, Num(4))
  THEN "Overall, this property appears to be a reasonable investment opportunity."
  ELSE IF Gt(f.cashFlow.monthly, Num(0))
  THEN "This property may be worth considering primarily for its positive cash flow, despite modest long-term returns."
  ELSE "This property presents some investment challenges and may require careful consideration of future market trends and personal investment goals."

\* the overall assessment
SummaryOverallText(f) ==
  IF Gt(f.roi.tenYear.annualizedROI, Num(12))
     /\ Gt(f.yields.netYieldOnInvestment, Num(6))
  THEN "Overall, this property appears to be a strong investment opportunity."
  ELSE IF Gt(f.roi.tenYear.annualizedROI, Num(8))
          /\ Gt(f.yields.netYieldOnInvestment, Num(4))
  THEN "Overall, this property appears to be a reasonable investment opportunity."
  ELSE IF Gt(f.cashFlow.monthly, Num(0))
  THEN "This property may be worth considering primarily for its positive cash flow, despite modest long-term returns."
  ELSE "This property presents some investment challenges and may require careful consideration of future market trends and personal investment goals."

\* the summary, as the sequence of the sentences appended to it
generateInvestmentSummary(f) ==
  <<SummaryCashFlowText(f), SummaryYieldText(f), SummaryROIText(f),
    SummaryBreakevenText(f), SummaryOverallText(f)>>

\* the thirteen fields that generatePropertyForecast takes from propertyData
ForecastFields ==
  {"propertyType", "purchasePrice", "deposit", "interestRate", "loanTerm",
   "monthlyLevies", "monthlyRates", "expectedRent", "bedrooms", "bathrooms",
   "location", "maintenancePercentage", "vacancyRate"}

\* const { propertyType, ..., vacancyRate } = propertyData
ForecastDestructure(propertyData) ==
  [f \in ForecastFields \cup {"propertyData"} |->
     IF f = "propertyData" THEN propertyData ELSE propertyData[f]]

\* a loan for the whole price, whatever the deposit
ForecastLoanAmount_WholePrice(v) ==
  Bind(v, "loanAmount", v.purchasePrice)

\* const loanAmount = purchasePrice - deposit
ForecastLoanAmount(v) ==
  Bind(v, "loanAmount", Sub(v.purchasePrice, v.deposit))

\* const purchaseCosts = calculateTotalPurchaseCosts(purchasePrice)
ForecastPurchaseCosts(v) ==
  Bind(v, "purchaseCosts", calculateTotalPurchaseCosts(v.purchasePrice))

\* const totalPurchaseCost = purchasePrice + purchaseCosts.total
ForecastTotalPurchaseCost(v) ==
  Bind(v, "totalPurchaseCost", Add(v.purchasePrice, v.purchaseCosts.total))

\* const monthlyBondRepayment = calculateMonthlyBondRepayment(...)
ForecastBondRepayment(v) ==
  Bind(v, "monthlyBondRepayment",
       calculateMonthlyBondRepayment(v.loanAmount, v.interestRate,
                                     v.loanTerm))

\* const expenses = calculateMonthlyExpenses({...})
ForecastExpenses(v) ==
  Bind(v, "expenses",
       calculateMonthlyExpenses(
         [purchasePrice |-> v.purchasePrice,
          monthlyLevies |-> v.monthlyLevies,
          monthlyRates |-> v.monthlyRates,
          maintenancePercentage |-> v.maintenancePercentage]))

\* const effectiveRent = calculateEffectiveRentalIncome(...)
ForecastEffectiveRent(v) ==
  Bind(v, "effectiveRent",
       calculateEffectiveRentalIncome(v.expectedRent, v.vacancyRate))

\* const yields = calculateYields({...})
ForecastYields(v) ==
  Bind(v, "yields",
       calculateYields(
         [purchasePrice |-> v.purchasePrice,
          totalPurchaseCost |-> v.totalPurchaseCost,
          expectedRent |-> v.expectedRent,
          effectiveRent |-> v.effectiveRent,
          monthlyExpenses |-> v.expenses.total]))

\* const cashFlow = calculateCashFlow({...})
ForecastCashFlow(v) ==
  Bind(v, "cashFlow",
       calculateCashFlow(
         [effectiveRent |-> v.effectiveRent,
          monthlyExpenses |-> v.expenses.total,
          monthlyBondRepayment |-> v.monthlyBondRepayment]))

\* a call that threads the caller's annualAppreciationRate through
ForecastROI_CallerRate(v) ==
  Bind(v, "roi",
       calculateROI(
         [deposit |-> v.deposit,
          totalPurchaseCost |-> v.totalPurchaseCost,
          annualCashFlow |-> v.cashFlow.annual,
          monthlyBondRepayment |-> v.monthlyBondRepayment,
          loanTermYears |-> v.loanTerm,
          annualAppreciationRate |->
            IF "annualAppreciationRate" \in DOMAIN v.propertyData
            THEN v.propertyData.annualAppreciationRate
            ELSE Undefined]))

\* const roi = calculateROI({...}), without an annualAppreciationRate
ForecastROI(v) ==
  Bind(v, "roi",
       calculateROI(
         [deposit |-> v.deposit,
          totalPurchaseCost |-> v.totalPurchaseCost,
          annualCashFlow |-> v.cashFlow.annual,
          monthlyBondRepayment |-> v.monthlyBondRepayment,
          loanTermYears |-> v.loanTerm,
          annualAppreciationRate |-> Undefined]))

\* a breakeven over the total purchase cost, the denominator of the ROI
ForecastBreakeven_TotalCost(v) ==
  Bind(v, "breakeven",
       calculateBreakeven(v.totalPurchaseCost, v.cashFlow.monthly))

\* const breakeven = calculateBreakeven(deposit + purchaseCosts.total, ...)
ForecastBreakeven(v) ==
  Bind(v, "breakeven",
       calculateBreakeven(Add(v.deposit, v.purchaseCosts.total),
                          v.cashFlow.monthly))

\* the return statement of generatePropertyForecast
ForecastReturn(v) ==
  [propertyDetails |->
     [propertyType |-> v.propertyType,
      location |-> v.location,
      bedrooms |-> v.bedrooms,
      bathrooms |-> v.bathrooms,
      purchasePrice |-> v.purchasePrice,
      totalPurchaseCost |-> v.totalPurchaseCost],
   financingDetails |->
     [deposit |-> v.deposit,
      loanAmount |-> v.loanAmount,
      interestRate |-> v.interestRate,
      loanTerm |-> v.loanTerm,
      monthlyBondRepayment |-> v.monthlyBondRepayment],
   purchaseCosts |-> v.purchaseCosts,
   rentalDetails |->
     [expectedRent |-> v.expectedRent,
      vacancyRate |-> v.vacancyRate,
      effectiveRent |-> v.effectiveRent],
   expenses |-> v.expenses,
   yields |-> v.yields,
   cashFlow |-> v.cashFlow,
   roi |-> v.roi,
   breakeven |-> v.breakeven,
   investmentSummary |->
     generateInvestmentSummary(
       [cashFlow |-> v.cashFlow, yields |-> v.yields,
        roi |-> v.roi, breakeven |-> v.breakeven])]

\* a forecast that turns down an input without purchase price > deposit
\* >= 0 or without a positive term
generatePropertyForecast_Validating(propertyData) ==
  IF \/ Le(propertyData.purchasePrice, propertyData.deposit)
     \/ Lt(propertyData.deposit, Num(0))
     \/ Le(propertyData.loanTerm, Num(0))
  THEN [error |-> "invalid property data"]
  ELSE ForecastReturn(
         ForecastBreakeven(
           ForecastROI(
             ForecastCashFlow(
               ForecastYields(
                 ForecastEffectiveRent(
                   ForecastExpenses(
                     ForecastBondRepayment(
                       ForecastTotalPurchaseCost(
                         ForecastPurchaseCosts(
                           ForecastLoanAmount(
                             ForecastDestructure(propertyData))))))))))))

\* an input object whose missing location has been filled in by the call
ForecastInputAfter_Defaulted(propertyData) ==
  [propertyData EXCEPT !.location = IF @ = "" THEN "Unknown" ELSE @]

\* the object propertyData after the call: it is only read (destructured)
ForecastInputAfter(propertyData) == propertyData

generatePropertyForecast(propertyData) ==
  ForecastReturn(
    ForecastBreakeven(
      ForecastROI(
        ForecastCashFlow(
          ForecastYields(
            ForecastEffectiveRent(
              ForecastExpenses(
                ForecastBondRepayment(
                  ForecastTotalPurchaseCost(
                    ForecastPurchaseCosts(
                      ForecastLoanAmount(
                        ForecastDestructure(propertyData))))))))))))

(***************************************************************************)
(* The presentation layer: PropertyForecastResults computes the points of  *)
(* its ROI projection chart from the fields of the forecast.               *)
(***************************************************************************)
\* a chart that takes the appreciation of the total purchase cost, as
\* calculateROI does
ChartAppreciationBase_TotalCost(forecast) ==
  forecast.propertyDetails.totalPurchaseCost

\* the value that the chart takes the appreciation of
ChartAppreciationBase(forecast) == forecast.propertyDetails.purchasePrice

\* const annualAppreciationRate = 0.05 and the appreciation after `year`
\* years
ChartTotalAppreciation(forecast, year) ==
  Mul(ChartAppreciationBase(forecast),
      Sub(Pow(Add(Num(1), Dec(5, 2)), Num(year)), Num(1)))

\* const equityBuild = monthlyBondRepayment * 12 * year * 0.4
ChartEquityBuild(forecast, year) ==
  Mul(Mul(Mul(forecast.financingDetails.monthlyBondRepayment, Num(12)),
          Num(year)),
      Dec(4, 1))

\* cumulativeReturn at the end of one turn of the loop
ChartCumulativeReturn(forecast, year) ==
  Add(Add(Add(Num(0), Mul(forecast.cashFlow.annual, Num(year))),
          ChartTotalAppreciation(forecast, year)),
      ChartEquityBuild(forecast, year))

\* the point of the initial investment
ChartInitialPoint(forecast) ==
  [year |-> 0,
   value |-> Mul(Num(-1), Add(forecast.financingDetails.deposit,
                              forecast.purchaseCosts.total))]

\* data, after the initial point and the ten points of the loop
generateROIChartData(forecast) ==
  <<ChartInitialPoint(forecast)>> \o
  [year \in 1..10 |->
     [year |-> year, value |-> ChartCumulativeReturn(forecast, year)]]

(***************************************************************************)
(* The calls.  A state holds one call of a function: the function, its     *)
(* arguments, and once it has returned its result and the branch it took;  *)
(* log is the sequence of the calls that have returned, each with its      *)
(* arguments before and after the call.                                    *)
(***************************************************************************)
VARIABLES fn, args, ret, path, pc, log,
          forecast, isLoading, activeTab, inputMethod,
          formData, url, error, isValid,
          timers, submissions, shown

\* the state of the application shell: the state of PropForecastApp, of
\* PropertyInputForm and of PropertyUrlInput, the timeouts that are pending,
\* the number of submissions made so far and the submission whose forecast
\* is shown
shell ==
  <<forecast, isLoading, activeTab, inputMethod, formData, url, error,
    isValid, timers, submissions, shown>>

vars == <<fn, args, ret, path, pc, log, shell>>

\* a session makes at most this many calls
MaxCalls == 3

\* prices are also drawn from the multiples of 250,000 up to this many
MaxPriceUnits == 48

\* loan terms are drawn from the multiples of 5 years up to this many
MaxTermUnits == 6

\* deposits of a forecast are the multiples of 500,000 up to this many
MaxDepositUnits == 2

PricePoints ==
  {-1000000, -1, 0, 1, 999999, 1000000, 1000001, 1200000, 1250000,
   1374999, 1375000, 1375001, 1924999, 1925000, 1925001,
   2474999, 2475000, 2475001, 10999999, 11000000, 11000001}

DutyArgs ==
  {[purchasePrice |-> Num(n)] : n \in PricePoints}
  \cup {[purchasePrice |-> Num(k * 250000)] : k \in 0..MaxPriceUnits}
  \cup {[purchasePrice |-> Dec(n, 2)] :
          n \in {100000050, 137500001, 192500099, 1100000025}}

Terms == {Num(0), Num(1)} \cup {Num(5 * k) : k \in 1..MaxTermUnits}

BondArgs ==
  [principal : {Num(-100000), Num(0), Num(1), Dec(99999999, 2),
                Num(1000000), Num(1125000)},
   annualInterestRate : {Num(-1), Num(0), Dec(25, 2), Dec(105, 1),
                         Dec(1075, 2)},
   termYears : Terms]

BreakevenArgs ==
  [initialCashOutflow : {Num(-5), Num(0), Num(1), Dec(10005, 1),
                         Num(225000), Num(225001), Num(228735)},
   monthlyCashFlow : {Num(-1000), Num(-1), Dec(-1, 2), Num(0), Dec(1, 2),
                      Num(1), Num(2), Num(7), Num(600),
                      Dec(321954209, 5)}]

ROIArgs ==
  [deposit : {Num(0), Num(200000)},
   totalPurchaseCost : {Num(1228735), Dec(12806375, 1)},
   annualCashFlow : {Dec(-5882747, 2), Num(0), Num(7200)},
   monthlyBondRepayment : {Num(0), Dec(1015229, 2)},
   loanTermYears : {Num(20), Num(30)},
   annualAppreciationRate : {Undefined, Num(5), Num(8)}]

FeePricePoints ==
  {-1, 0, 99999, 100000, 100001, 499999, 500000, 500001, 999999, 1000000,
   1000001, 4999999, 5000000, 5000001}

AttorneyArgs ==
  {[purchasePrice |-> Num(n)] : n \in FeePricePoints}
  \cup {[purchasePrice |-> Num(k * 250000)] : k \in 0..MaxPriceUnits}
  \cup {[purchasePrice |-> Dec(n, 2)] : n \in {10000050, 50000001}}

ExpensesArgs ==
  [purchasePrice : {Num(0), Num(950000), Num(1200000), Dec(123456789, 2)},
   monthlyLevies : {Num(0), Num(1500), Dec(18005, 1)},
   monthlyRates : {Num(0), Num(800)},
   maintenancePercentage : {Num(-1), Num(0), Num(1), Dec(15, 1)}]

RentArgs ==
  [expectedRent : {Num(-1000), Num(0), Num(8500), Num(9000),
                   Dec(1234567, 2)},
   vacancyRate : {Num(-5), Num(0), Num(5), Dec(125, 1), Num(50), Num(100),
                  Num(101), Num(150)}]

\* the objects passed to calculateYields; monthlyBondRepayment is a field
\* that it does not take
YieldsArgs ==
  [purchasePrice : {Num(0), Num(1200000), Num(1250000)},
   totalPurchaseCost : {Num(1228735), Dec(12806375, 1)},
   expectedRent : {Num(0), Num(8500), Num(9000)},
   effectiveRent : {Num(-100), Num(8075), Num(8550)},
   monthlyExpenses : {Num(0), Num(3300)},
   monthlyBondRepayment : {Num(0), Dec(1015229, 2)}]

\* a { cashFlow, yields, roi, breakeven } with the four values that
\* generateInvestmentSummary looks at
SummaryInput(monthly, netYield, annualized, years) ==
  [cashFlow |-> [monthly |-> monthly],
   yields |-> [netYieldOnInvestment |-> netYield],
   roi |-> [tenYear |-> [annualizedROI |-> annualized]],
   breakeven |-> [years |-> years]]

SummaryCashFlows == {Num(600), Num(500), Num(100), Num(0), Num(-500), Num(-600)}

SummaryYields == {Num(9), Num(8), Num(7), Num(6), Num(4), NaN}

SummaryROIs == {Num(16), Num(15), Num(13), Num(12), Num(10), Num(8), Num(7), Num(-5)}

SummaryYears == {Num(3), Num(5), Num(7), Num(10), Num(20), PosInf}

SummaryArgs ==
  {SummaryInput(c, y, r, b) :
     c \in SummaryCashFlows, y \in SummaryYields, r \in SummaryROIs,
     b \in SummaryYears}

\* the initial form data of PropertyInputForm
DefaultFormData ==
  [propertyType |-> "apartment", purchasePrice |-> Num(1200000),
   deposit |-> Num(200000), interestRate |-> Dec(1075, 2),
   loanTerm |-> Num(20), monthlyLevies |-> Num(1500),
   monthlyRates |-> Num(800), expectedRent |-> Num(9000),
   bedrooms |-> 2, bathrooms |-> 1, location |-> "",
   maintenancePercentage |-> Num(1), vacancyRate |-> Num(5)]

\* the property data that handleUrlSubmit makes up
MockPropertyData(location) ==
  [propertyType |-> "apartment", purchasePrice |-> Num(1250000),
   deposit |-> Num(125000), interestRate |-> Dec(105, 1),
   loanTerm |-> Num(20), monthlyLevies |-> Num(1800),
   monthlyRates |-> Num(950), expectedRent |-> Num(8500),
   bedrooms |-> 2, bathrooms |-> 1, location |-> location,
   maintenancePercentage |-> Num(1), vacancyRate |-> Num(5)]

\* a record with a field that generatePropertyForecast does not read
WithExtra(d, rate) ==
  [f \in DOMAIN d \cup {"annualAppreciationRate"} |->
     IF f = "annualAppreciationRate" THEN rate ELSE d[f]]

ForecastBases == {DefaultFormData, MockPropertyData("Sandton, Johannesburg")}

ForecastVariants(b) ==
  {WithExtra([b EXCEPT !.purchasePrice = p, !.deposit = d,
                       !.interestRate = i, !.loanTerm = t,
                       !.expectedRent = e], x) :
     p \in {Num(950000), b.purchasePrice},
     d \in {b.deposit} \cup {Num(500000 * k) : k \in 0..MaxDepositUnits},
     i \in {Num(0), b.interestRate},
     t \in {b.loanTerm},
     e \in {b.expectedRent, Num(20000)},
     x \in {Undefined, Num(8)}}

\* inputs outside of purchase price > deposit >= 0, a positive term and
\* percentages between 0 and 100
InvalidForecastArgs ==
  {WithExtra(d, Undefined) :
     d \in {[DefaultFormData EXCEPT !.purchasePrice = Num(0)],
            [DefaultFormData EXCEPT !.purchasePrice = Num(-100000)],
            [DefaultFormData EXCEPT !.purchasePrice = Num(0),
                                    !.deposit = Num(0)],
            [DefaultFormData EXCEPT !.deposit = Num(1200000)],
            [DefaultFormData EXCEPT !.deposit = Num(2000000)],
            [DefaultFormData EXCEPT !.deposit = Num(-200000)],
            [DefaultFormData EXCEPT !.loanTerm = Num(0)],
            [DefaultFormData EXCEPT !.loanTerm = Num(0),
                                    !.interestRate = Num(0)],
            [DefaultFormData EXCEPT !.loanTerm = Num(0),
                                    !.deposit = Num(1200000)],
            [DefaultFormData EXCEPT !.loanTerm = Num(-20)],
            [DefaultFormData EXCEPT !.vacancyRate = Num(150)],
            [DefaultFormData EXCEPT !.interestRate = Num(-1)],
            [DefaultFormData EXCEPT !.interestRate = Num(-1200)],
            [DefaultFormData EXCEPT !.maintenancePercentage = Num(-1)],
            [DefaultFormData EXCEPT !.expectedRent = Num(-9000)]}}

ForecastArgs ==
  UNION {ForecastVariants(b) : b \in ForecastBases} \cup InvalidForecastArgs

\* useState(null)
Null == [k |-> "null"]

\* the shell as it is mounted: the useState calls of PropForecastApp, of
\* PropertyInputForm and of PropertyUrlInput
ShellInitial ==
  /\ forecast = Null
  /\ isLoading = FALSE
  /\ activeTab = "input"
  /\ inputMethod = "manual"
  /\ formData = DefaultFormData
  /\ url = <<>>
  /\ error = ""
  /\ isValid = FALSE
  /\ timers = {}
  /\ submissions = 0
  /\ shown = [id |-> 0, handler |-> "none", delay |-> 0,
              propertyData |-> Null, url |-> <<>>]

Init ==
  /\ ShellInitial
  /\ pc = "call"
  /\ ret = Undefined
  /\ path = "none"
  /\ log = <<>>
  /\ \/ fn = "calculateTransferDuty" /\ args \in DutyArgs
     \/ fn = "calculateMonthlyBondRepayment" /\ args \in BondArgs
     \/ fn = "calculateBreakeven" /\ args \in BreakevenArgs
     \/ fn = "calculateROI" /\ args \in ROIArgs
     \/ fn = "generatePropertyForecast" /\ args \in ForecastArgs
     \/ fn = "calculateAttorneyFees" /\ args \in AttorneyArgs
     \/ fn = "calculateTotalPurchaseCosts" /\ args \in DutyArgs
     \/ fn = "calculateMonthlyExpenses" /\ args \in ExpensesArgs
     \/ fn = "calculateEffectiveRentalIncome" /\ args \in RentArgs
     \/ fn = "calculateYields" /\ args \in YieldsArgs
     \/ fn = "generateInvestmentSummary" /\ args \in SummaryArgs

\* the call that returns is appended to the log
Logged ==
  log' = Append(log, [fn |-> fn, args |-> args, after |-> args', ret |-> ret'])

BandName(b) == <<"band1", "band2", "band3", "band4", "band5", "band6">>[b]

CallTransferDuty ==
  /\ pc = "call" /\ fn = "calculateTransferDuty"
  /\ ret' = calculateTransferDuty(args.purchasePrice)
  /\ path' = BandName(TransferDutyBand(args.purchasePrice))
  /\ pc' = "done"
  /\ UNCHANGED <<fn, args>>
  /\ Logged
  /\ UNCHANGED shell

CallMonthlyBondRepayment ==
  /\ pc = "call" /\ fn = "calculateMonthlyBondRepayment"
  /\ ret' = calculateMonthlyBondRepayment(args.principal,
              args.annualInterestRate, args.termYears)
  /\ path' = IF ZeroRateBranch(MonthlyInterestRate(args.annualInterestRate))
             THEN "zeroRate" ELSE "amortized"
  /\ pc' = "done"
  /\ UNCHANGED <<fn, args>>
  /\ Logged
  /\ UNCHANGED shell

CallBreakeven ==
  /\ pc = "call" /\ fn = "calculateBreakeven"
  /\ ret' = calculateBreakeven(args.initialCashOutflow, args.monthlyCashFlow)
  /\ path' = IF BreakevenUnbounded(args.monthlyCashFlow)
             THEN "unbounded" ELSE "divided"
  /\ pc' = "done"
  /\ UNCHANGED <<fn, args>>
  /\ Logged
  /\ UNCHANGED shell

CallROI ==
  /\ pc = "call" /\ fn = "calculateROI"
  /\ ret' = calculateROI(args)
  /\ path' = "straight"
  /\ pc' = "done"
  /\ UNCHANGED <<fn, args>>
  /\ Logged
  /\ UNCHANGED shell

CallForecast ==
  /\ pc = "call" /\ fn = "generatePropertyForecast"
  /\ ret' = generatePropertyForecast(args)
  /\ args' = ForecastInputAfter(args)
  /\ path' = "straight"
  /\ pc' = "done"
  /\ UNCHANGED fn
  /\ Logged
  /\ UNCHANGED shell

CallAttorneyFees ==
  /\ pc = "call" /\ fn = "calculateAttorneyFees"
  /\ ret' = calculateAttorneyFees(args.purchasePrice)
  /\ path' = BandName(AttorneyFeeBand(args.purchasePrice))
  /\ pc' = "done"
  /\ UNCHANGED <<fn, args>>
  /\ Logged
  /\ UNCHANGED shell

CallTotalPurchaseCosts ==
  /\ pc = "call" /\ fn = "calculateTotalPurchaseCosts"
  /\ ret' = calculateTotalPurchaseCosts(args.purchasePrice)
  /\ path' = "straight"
  /\ pc' = "done"
  /\ UNCHANGED <<fn, args>>
  /\ Logged
  /\ UNCHANGED shell

CallMonthlyExpenses ==
  /\ pc = "call" /\ fn = "calculateMonthlyExpenses"
  /\ ret' = calculateMonthlyExpenses(args)
  /\ path' = "straight"
  /\ pc' = "done"
  /\ UNCHANGED <<fn, args>>
  /\ Logged
  /\ UNCHANGED shell

CallEffectiveRentalIncome ==
  /\ pc = "call" /\ fn = "calculateEffectiveRentalIncome"
  /\ ret' = calculateEffectiveRentalIncome(args.expectedRent,
                                            args.vacancyRate)
  /\ path' = "straight"
  /\ pc' = "done"
  /\ UNCHANGED <<fn, args>>
  /\ Logged
  /\ UNCHANGED shell

CallYields ==
  /\ pc = "call" /\ fn = "calculateYields"
  /\ ret' = calculateYields(args)
  /\ path' = "straight"
  /\ pc' = "done"
  /\ UNCHANGED <<fn, args>>
  /\ Logged
  /\ UNCHANGED shell

CallInvestmentSummary ==
  /\ pc = "call" /\ fn = "generateInvestmentSummary"
  /\ ret' = generateInvestmentSummary(args)
  /\ path' = "straight"
  /\ pc' = "done"
  /\ UNCHANGED <<fn, args>>
  /\ Logged
  /\ UNCHANGED shell

\* PropertyForecastResults is rendered with the forecast that has been
\* returned, and computes the chart data from it
RenderForecastResults ==
  /\ pc = "done" /\ fn = "generatePropertyForecast"
  /\ fn' = "generateROIChartData"
  /\ args' = ret
  /\ ret' = generateROIChartData(ret)
  /\ path' = "straight"
  /\ pc' = "done"
  /\ log' = Append(log, [fn |-> fn', args |-> ret, after |-> ret,
                         ret |-> ret'])
  /\ UNCHANGED shell

Next ==
  \/ CallTransferDuty
  \/ CallAttorneyFees
  \/ CallTotalPurchaseCosts
  \/ CallMonthlyExpenses
  \/ CallEffectiveRentalIncome
  \/ CallYields
  \/ CallInvestmentSummary
  \/ CallMonthlyBondRepayment
  \/ CallBreakeven
  \/ CallROI
  \/ CallForecast
  \/ RenderForecastResults

Spec == Init /\ [][Next]_vars

(***************************************************************************)
(* Sessions: up to MaxCalls calls one after the other, of                  *)
(* generatePropertyForecast and of other functions in between.             *)
(***************************************************************************)
SessionCalls ==
  {[fn |-> "generatePropertyForecast",
    args |-> WithExtra(DefaultFormData, Undefined)],
   [fn |-> "generatePropertyForecast",
    args |-> WithExtra(MockPropertyData("Sandton, Johannesburg"), Undefined)],
   [fn |-> "generatePropertyForecast",
    args |-> WithExtra(MockPropertyData("Rondebosch, Cape Town"), Num(8))],
   [fn |-> "calculateROI",
    args |-> [deposit |-> Num(200000), totalPurchaseCost |-> Num(1228735),
              annualCashFlow |-> Num(7200),
              monthlyBondRepayment |-> Dec(1015229, 2),
              loanTermYears |-> Num(20), annualAppreciationRate |-> Num(8)]],
   [fn |-> "calculateBreakeven",
    args |-> [initialCashOutflow |-> Num(225000),
              monthlyCashFlow |-> Num(600)]]}

SessionInit ==
  /\ ShellInitial
  /\ pc = "call"
  /\ ret = Undefined
  /\ path = "none"
  /\ log = <<>>
  /\ \E c \in SessionCalls : fn = c.fn /\ args = c.args

\* the caller makes its next call
NextCall ==
  /\ pc = "done"
  /\ Len(log) < MaxCalls
  /\ \E c \in SessionCalls : fn' = c.fn /\ args' = c.args
  /\ pc' = "call"
  /\ UNCHANGED <<ret, path, log>>
  /\ UNCHANGED shell

SessionNext ==
  \/ NextCall
  \/ CallForecast
  \/ CallROI
  \/ CallBreakeven

SessionSpec == SessionInit /\ [][SessionNext]_vars

(***************************************************************************)
(* The application shell.  PropForecastApp shows either one of the two     *)
(* input components or the results; a submission starts a timeout whose    *)
(* callback computes the forecast.  A component that is not shown is       *)
(* unmounted: its state is kept at the values that it takes when it is     *)
(* mounted again.  The text of a URL is a sequence of pieces (a scheme,    *)
(* the labels of a host name, the segments of a path), chosen so that the  *)
(* strings that the code looks for begin and end at the border of a piece. *)
(***************************************************************************)
\* the submissions that a behaviour of the shell is followed over
MaxSubmissions == 2

\* the edits of the form that are followed: a field and its new value
FormEdits ==
  {[name |-> "purchasePrice", value |-> Num(950000)],
   [name |-> "purchasePrice", value |-> Num(1200000)],
   [name |-> "expectedRent", value |-> Num(20000)],
   [name |-> "expectedRent", value |-> Num(9000)]}

\* the texts typed into the URL field
UrlTexts ==
  {<<"https://", "www.", "property24", ".com", "/", "for-sale">>,
   <<"https://", "www.", "privateproperty", ".co.za", "/", "for-sale">>,
   <<"https://", "www.", "privateproperty", ".co.za", "/", "property24">>,
   <<"https://", "WWW.", "PROPERTY24", ".COM", "/", "for-sale">>,
   <<"https://", "property24", ".com", ".example", "/", "for-sale">>,
   <<"https://", "www.", "property24", ".com">>,
   <<"https://", "www.", "property24", ".com", "/">>,
   <<"https://", "example", ".com", "/", "property24", ".com">>,
   <<"www.", "property24", ".com", "/", "for-sale">>,
   <<"https://">>,
   <<>>}

\* text.length
RECURSIVE TextLength(_)
TextLength(text) ==
  IF text = <<>> THEN 0 ELSE Len(Head(text)) + TextLength(Tail(text))

\* text.includes(pattern)
Includes(text, pattern) ==
  \E i \in 1..(Len(text) - Len(pattern) + 1) :
    SubSeq(text, i, i + Len(pattern) - 1) = pattern

\* the host name as the URL parser keeps it: in lower case
LowerCase(piece) ==
  CASE piece = "WWW." -> "www."
    [] piece = "PROPERTY24" -> "property24"
    [] piece = ".COM" -> ".com"
    [] OTHER -> piece

\* the place of the first piece of text that is in the set `marks`, or of
\* the end of text
RECURSIVE FirstOf(_, _, _)
FirstOf(text, marks, i) ==
  IF i > Len(text) \/ text[i] \in marks THEN i
  ELSE FirstOf(text, marks, i + 1)

\* new URL(inputUrl): ok is FALSE when the constructor throws (there is no
\* scheme, or no host after it); the host name ends at the first "/", and
\* the path is what follows, or "/"
NewURL(inputUrl) ==
  IF inputUrl = <<>> \/ Head(inputUrl) # "https://"
  THEN [ok |-> FALSE, hostname |-> <<>>, pathname |-> <<>>]
  ELSE LET rest == Tail(inputUrl)
           slash == FirstOf(rest, {"/"}, 1)
       IN  [ok |-> slash > 1,
            hostname |-> [i \in 1..(slash - 1) |-> LowerCase(rest[i])],
            pathname |-> IF slash > Len(rest) THEN <<"/">>
                         ELSE SubSeq(rest, slash, Len(rest))]

\* a test of the domain that looks at the whole text of the URL
IsValidDomain_AnywhereInText(inputUrl, urlObj) ==
  \E validDomain \in {<<"property24", ".com">>,
                       <<"privateproperty", ".co.za">>} :
    Includes(inputUrl, validDomain)

\* validDomains.some(validDomain => domain.includes(validDomain)), with
\* validDomains = ['property24.com', 'privateproperty.co.za']
IsValidDomain(inputUrl, urlObj) ==
  \E validDomain \in {<<"property24", ".com">>,
                       <<"privateproperty", ".co.za">>} :
    Includes(urlObj.hostname, validDomain)

\* validateUrl: its result, and the error that it sets; it sets isValid to
\* its result
validateUrl(inputUrl) ==
  LET urlObj == NewURL(inputUrl)
  IN  IF ~urlObj.ok
      THEN [result |-> FALSE, error |-> "Please enter a valid URL"]
      ELSE IF ~IsValidDomain(inputUrl, urlObj)
      THEN [result |-> FALSE,
            error |-> "Please enter a URL from Property24 or PrivateProperty"]
      ELSE IF ~(TextLength(urlObj.pathname) > 1)
      THEN [result |-> FALSE,
            error |-> "This doesn't appear to be a property listing URL"]
      ELSE [result |-> TRUE, error |-> ""]

\* the input component that PropForecastApp renders: PropertyInputForm or
\* PropertyUrlInput on the input tab, none next to the results
Mounted(tab, method) ==
  IF tab # "input" THEN "none"
  ELSE IF method = "manual" THEN "PropertyInputForm"
  ELSE "PropertyUrlInput"

\* PropForecastApp is rendered with a new activeTab and inputMethod: a
\* component that stays keeps its state, one that is mounted starts from
\* its initial state
Show(tab, method) ==
  /\ activeTab' = tab
  /\ inputMethod' = method
  /\ IF Mounted(tab, method) = Mounted(activeTab, inputMethod)
     THEN UNCHANGED <<formData, url, error, isValid>>
     ELSE /\ formData' = DefaultFormData
          /\ url' = <<>>
          /\ error' = ""
          /\ isValid' = FALSE

\* setIsLoading(true); setTimeout(callback, delay)
StartTimer(handler, delay, propertyData, inputUrl) ==
  /\ submissions < MaxSubmissions
  /\ isLoading' = TRUE
  /\ submissions' = submissions + 1
  /\ timers' = timers \cup {[id |-> submissions + 1, handler |-> handler,
                             delay |-> delay, propertyData |-> propertyData,
                             url |-> inputUrl]}
  /\ UNCHANGED <<forecast, activeTab, inputMethod, shown>>

\* handleChange of PropertyInputForm
FormChange ==
  /\ Mounted(activeTab, inputMethod) = "PropertyInputForm"
  /\ \E edit \in FormEdits :
       formData' = [formData EXCEPT ![edit.name] = edit.value]
  /\ UNCHANGED <<forecast, isLoading, activeTab, inputMethod, url, error,
                 isValid, timers, submissions, shown>>
  /\ UNCHANGED <<fn, args, ret, path, pc, log>>

\* a submit button that stays enabled while a forecast is computed
FormSubmitDisabled_Never(loading) == FALSE

\* disabled={isLoading} on the submit button of PropertyInputForm
FormSubmitDisabled(loading) == loading

\* handleSubmit of PropertyInputForm: onSubmit(formData), which is
\* handlePropertySubmit
FormSubmit ==
  /\ Mounted(activeTab, inputMethod) = "PropertyInputForm"
  /\ ~FormSubmitDisabled(isLoading)
  /\ StartTimer("handlePropertySubmit", 1500, formData, <<>>)
  /\ UNCHANGED <<formData, url, error, isValid>>
  /\ UNCHANGED <<fn, args, ret, path, pc, log>>

\* handleChange of PropertyUrlInput
UrlChange ==
  /\ Mounted(activeTab, inputMethod) = "PropertyUrlInput"
  /\ \E inputUrl \in UrlTexts :
       /\ url' = inputUrl
       /\ IF TextLength(inputUrl) > 10
          THEN /\ error' = validateUrl(inputUrl).error
               /\ isValid' = validateUrl(inputUrl).result
          ELSE /\ error' = ""
               /\ isValid' = FALSE
  /\ UNCHANGED <<forecast, isLoading, activeTab, inputMethod, formData,
                 timers, submissions, shown>>
  /\ UNCHANGED <<fn, args, ret, path, pc, log>>

\* disabled={!isValid || isLoading} on the submit button of PropertyUrlInput
UrlSubmitDisabled(valid, loading) == ~valid \/ loading

\* handleSubmit of PropertyUrlInput: onSubmit(url), which is
\* handleUrlSubmit, if validateUrl(url)
UrlSubmit ==
  /\ Mounted(activeTab, inputMethod) = "PropertyUrlInput"
  /\ ~UrlSubmitDisabled(isValid, isLoading)
  /\ error' = validateUrl(url).error
  /\ isValid' = validateUrl(url).result
  /\ IF validateUrl(url).result
     THEN StartTimer("handleUrlSubmit", 2000, Null, url)
     ELSE UNCHANGED <<forecast, isLoading, activeTab, inputMethod, timers,
                      submissions, shown>>
  /\ UNCHANGED <<formData, url>>
  /\ UNCHANGED <<fn, args, ret, path, pc, log>>

\* the Manual Input button and the Property URL button:
\* setActiveTab('input') and setInputMethod of 'manual' or of 'url'
ClickInputMethod ==
  /\ \E method \in {"manual", "url"} : Show("input", method)
  /\ UNCHANGED <<forecast, isLoading, timers, submissions, shown>>
  /\ UNCHANGED <<fn, args, ret, path, pc, log>>

\* a Forecast Results button that is enabled from the start
ResultsTabEnabled_Always(f) == TRUE

\* disabled={!forecast} and forecast && setActiveTab('results')
ResultsTabEnabled(f) == f # Null

\* the Forecast Results button
ClickForecastResults ==
  /\ ResultsTabEnabled(forecast)
  /\ Show("results", inputMethod)
  /\ UNCHANGED <<forecast, isLoading, timers, submissions, shown>>
  /\ UNCHANGED <<fn, args, ret, path, pc, log>>

\* the Back to Input button, which is rendered next to the results
handleBackToInput ==
  /\ activeTab # "input"
  /\ Show("input", inputMethod)
  /\ UNCHANGED <<forecast, isLoading, timers, submissions, shown>>
  /\ UNCHANGED <<fn, args, ret, path, pc, log>>

\* a callback that reads the form as it is when the timeout fires
CallbackPropertyData_FormNow(timer, formNow) ==
  IF timer.handler = "handlePropertySubmit" THEN formNow
  ELSE MockPropertyData(IF Includes(timer.url, <<"property24">>)
                        THEN "Sandton, Johannesburg"
                        ELSE "Rondebosch, Cape Town")

\* the data that the callback of a timeout passes to
\* generatePropertyForecast: the propertyData that handlePropertySubmit was
\* called with, or the mockPropertyData of handleUrlSubmit
CallbackPropertyData(timer, formNow) ==
  IF timer.handler = "handlePropertySubmit" THEN timer.propertyData
  ELSE MockPropertyData(IF Includes(timer.url, <<"property24">>)
                        THEN "Sandton, Johannesburg"
                        ELSE "Rondebosch, Cape Town")

\* the data that a callback can pass to generatePropertyForecast: the form
\* after the edits that are followed, and the two mockPropertyData
\* and generatePropertyForecast of each, computed once
ShellForecasts ==
  {<<propertyData, generatePropertyForecast(propertyData)>> :
     propertyData \in
       {[DefaultFormData EXCEPT !.purchasePrice = p, !.expectedRent = e] :
          p \in {Num(950000), Num(1200000)}, e \in {Num(20000), Num(9000)}}
       \cup {MockPropertyData("Sandton, Johannesburg"),
             MockPropertyData("Rondebosch, Cape Town")}}

\* const forecastResults = generatePropertyForecast(propertyData)
ForecastResults(propertyData) ==
  (CHOOSE entry \in ShellForecasts : entry[1] = propertyData)[2]

\* a timeout fires, none that was started before it with a delay that is
\* not longer being still pending, and its callback runs: setForecast,
\* setActiveTab('results') and setIsLoading(false)
TimerFires ==
  /\ \E timer \in timers :
       /\ \A other \in timers :
            ~(other.id < timer.id /\ other.delay <= timer.delay)
       /\ timers' = timers \ {timer}
       /\ shown' = timer
       /\ forecast' = ForecastResults(CallbackPropertyData(timer, formData))
  /\ Show("results", inputMethod)
  /\ isLoading' = FALSE
  /\ UNCHANGED submissions
  /\ UNCHANGED <<fn, args, ret, path, pc, log>>

\* the shell starts with no call in hand
AppInit ==
  /\ ShellInitial
  /\ fn = "none"
  /\ args = Undefined
  /\ ret = Undefined
  /\ path = "none"
  /\ pc = "idle"
  /\ log = <<>>

AppNext ==
  \/ FormChange
  \/ FormSubmit
  \/ UrlChange
  \/ UrlSubmit
  \/ ClickInputMethod
  \/ ClickForecastResults
  \/ handleBackToInput
  \/ TimerFires

AppSpec == AppInit /\ [][AppNext]_vars

\* the event loop runs the callback of a timeout that is due
AppFairSpec == AppSpec /\ WF_vars(TimerFires)

Returned(f) == pc = "done" /\ fn = f

(***************************************************************************)
(* Transfer duty.                                                          *)
(***************************************************************************)
Min(a, b) == IF Lt(b, a) THEN b ELSE a

\* the part of a price that lies between lo and hi
PartInBand(price, lo, hi) ==
  IF Gt(Min(price, hi), lo) THEN Sub(Min(price, hi), lo) ELSE Num(0)

\* the progressive marginal schedule: per band, rate times the part of the
\* price inside the band
MarginalSchedule(price) ==
  Add(Add(Add(Add(
    Mul(PartInBand(price, Num(1000000), Num(1375000)), Dec(3, 2)),
    Mul(PartInBand(price, Num(1375000), Num(1925000)), Dec(6, 2))),
    Mul(PartInBand(price, Num(1925000), Num(2475000)), Dec(8, 2))),
    Mul(PartInBand(price, Num(2475000), Num(11000000)), Dec(11, 2))),
    Mul(PartInBand(price, Num(11000000), PosInf), Dec(13, 2)))

\* C1: calculateTransferDuty(price) is the progressive marginal schedule of
\* the five bands for every price; it is 0 for every price <= 1,000,000
\* (zero and negative prices included) and 6,000 at 1,200,000.
C1_DutyIsMarginalSchedule ==
  Returned("calculateTransferDuty") =>
    /\ ret = MarginalSchedule(args.purchasePrice)
    /\ Le(args.purchasePrice, Num(1000000)) => ret = Num(0)
    /\ args.purchasePrice = Num(1200000) => ret = Num(6000)

\* a duty has been computed in the top band, one in the second band at
\* 1,200,000, and one for a negative price
C1_Witness ==
  /\ Returned("calculateTransferDuty")
  /\ args.purchasePrice = Num(12000000)
  /\ ret = Num(1156000)
  /\ path = "band6"

\* the thresholds of the schedule and the fixed amount of the band above
Thresholds ==
  <<Num(1000000), Num(1375000), Num(1925000), Num(2475000), Num(11000000)>>

UpperBase == <<Num(0), Num(11250), Num(44250), Num(88250), Num(1026000)>>

\* C2: at each of the five thresholds the duty, which the code computes
\* with the lower band's formula, equals the upper band's formula there
\* (zero excess), i.e. the upper band's fixed amount 0, 11,250, 44,250,
\* 88,250 and 1,026,000.
C2_DutyContinuous ==
  Returned("calculateTransferDuty") =>
    \A i \in 1..5 :
      args.purchasePrice = Thresholds[i] =>
        /\ path = BandName(i)
        /\ ret = TransferDutyFormula(i, args.purchasePrice)
        /\ ret = TransferDutyFormula(i + 1, args.purchasePrice)
        /\ ret = UpperBase[i]

\* the duty at the highest threshold has been computed
C2_Witness ==
  /\ Returned("calculateTransferDuty")
  /\ args.purchasePrice = Thresholds[5]
  /\ ret = Num(1026000)
  /\ path = "band5"

(***************************************************************************)
(* Bond repayment.                                                         *)
(***************************************************************************)
\* a and b differ by at most tol
Near(a, b, tol) == Le(Sub(a, b), tol) /\ Le(Sub(b, a), tol)

\* the input of the scenario: 1,200,000 at 10.75% over 20 years with a
\* deposit of 200,000
RepaymentScenario ==
  /\ args.purchasePrice = Num(1200000)
  /\ args.deposit = Num(200000)
  /\ args.interestRate = Dec(1075, 2)
  /\ args.loanTerm = Num(20)

\* C3 (as written): for that input the forecast has loanAmount = 1,000,000
\* and a monthlyBondRepayment within 1 unit of 9,952.
C3_RepaymentNear9952 ==
  Returned("generatePropertyForecast") /\ RepaymentScenario =>
    /\ ret.financingDetails.loanAmount = Num(1000000)
    /\ Near(ret.financingDetails.monthlyBondRepayment, Num(9952), Num(1))

\* C3 (amended): for that input the forecast has loanAmount = 1,000,000 and
\* a monthlyBondRepayment within 1 unit of 10,152, the value of the
\* amortization formula P * r(1+r)^n / ((1+r)^n - 1).
C3_RepaymentNear10152 ==
  Returned("generatePropertyForecast") /\ RepaymentScenario =>
    /\ ret.financingDetails.loanAmount = Num(1000000)
    /\ Near(ret.financingDetails.monthlyBondRepayment, Num(10152), Num(1))

\* the forecast of the form's initial data has been computed
C3_Witness ==
  /\ Returned("generatePropertyForecast")
  /\ RepaymentScenario
  /\ args.expectedRent = Num(9000)
  /\ ret.financingDetails.loanAmount = Num(1000000)
  /\ Gt(ret.financingDetails.monthlyBondRepayment, Num(10152))
  /\ Lt(ret.financingDetails.monthlyBondRepayment, Num(10153))

\* C4: with an annual rate of 0 and termYears > 0 the repayment is exactly
\* principal / (termYears * 12), and the zero-rate branch is the one taken
\* exactly when annualInterestRate / 100 / 12 is zero, so that the
\* amortization formula is never evaluated with r = 0.
C4_ZeroRateRepayment ==
  Returned("calculateMonthlyBondRepayment") =>
    /\ (path = "zeroRate") <=>
         (Div(Div(args.annualInterestRate, Num(100)), Num(12)) = Num(0))
    /\ path \in {"zeroRate", "amortized"}
    /\ (args.annualInterestRate = Num(0) /\ Gt(args.termYears, Num(0))) =>
         ret = Div(args.principal, Mul(args.termYears, Num(12)))

\* a loan of 1,000,000 without interest has been spread over 240 months
C4_Witness ==
  /\ Returned("calculateMonthlyBondRepayment")
  /\ args.principal = Num(1000000)
  /\ args.annualInterestRate = Num(0)
  /\ args.termYears = Num(20)
  /\ path = "zeroRate"
  /\ Gt(ret, Num(4166)) /\ Lt(ret, Num(4167))

(***************************************************************************)
(* Breakeven.                                                              *)
(***************************************************************************)
\* C5: with a monthly cash flow <= 0, zero included, calculateBreakeven
\* returns Infinity as months and as years for every outflow, from the
\* first return, without dividing by the cash flow.
C5_BreakevenUnbounded ==
  Returned("calculateBreakeven") /\ Le(args.monthlyCashFlow, Num(0)) =>
    /\ ret = [months |-> PosInf, years |-> PosInf]
    /\ path = "unbounded"

\* a breakeven has been asked for a cash flow of exactly zero
C5_Witness ==
  /\ Returned("calculateBreakeven")
  /\ args.monthlyCashFlow = Num(0)
  /\ args.initialCashOutflow = Num(225000)
  /\ ret.months = PosInf /\ ret.years = PosInf
  /\ path = "unbounded"

\* C6: with a monthly cash flow > 0, months is the ceiling of
\* outflow / cash flow, which is the least whole number m with
\* m * cash flow >= outflow, and years is months / 12; an outflow of 225,000
\* at 600 a month gives 375 months and 31.25 years.
C6_BreakevenCeiling ==
  Returned("calculateBreakeven") /\ Gt(args.monthlyCashFlow, Num(0)) =>
    /\ path = "divided"
    /\ ret.months = Ceil(Div(args.initialCashOutflow, args.monthlyCashFlow))
    /\ IsInteger(ret.months)
    /\ Ge(Mul(ret.months, args.monthlyCashFlow), args.initialCashOutflow)
    /\ Lt(Mul(Sub(ret.months, Num(1)), args.monthlyCashFlow),
          args.initialCashOutflow)
    /\ ret.years = Div(ret.months, Num(12))
    /\ (args.initialCashOutflow = Num(225000)
          /\ args.monthlyCashFlow = Num(600)) =>
         ret.months = Num(375) /\ ret.years = Dec(3125, 2)

\* an outflow that is not a multiple of the cash flow has been rounded up:
\* 225,001 at 600 a month takes 376 months
C6_Witness ==
  /\ Returned("calculateBreakeven")
  /\ args.initialCashOutflow = Num(225001)
  /\ args.monthlyCashFlow = Num(600)
  /\ ret.months = Num(376)
  /\ path = "divided"

(***************************************************************************)
(* The forecast.                                                           *)
(***************************************************************************)
\* C7: in every forecast loanAmount = purchasePrice - deposit (so loanAmount
\* + deposit = purchasePrice), the bond repayment is the one of that loan
\* amount, totalPurchaseCost = purchasePrice + purchaseCosts.total, and the
\* yields and the ROI are the ones computed over that totalPurchaseCost.
C7_ForecastDerivation ==
  Returned("generatePropertyForecast") =>
    /\ ret.financingDetails.loanAmount = Sub(args.purchasePrice, args.deposit)
    /\ Add(ret.financingDetails.loanAmount, args.deposit) = args.purchasePrice
    /\ ret.financingDetails.monthlyBondRepayment =
         calculateMonthlyBondRepayment(ret.financingDetails.loanAmount,
                                       args.interestRate, args.loanTerm)
    /\ ret.propertyDetails.totalPurchaseCost =
         Add(args.purchasePrice, ret.purchaseCosts.total)
    /\ ret.yields =
         calculateYields(
           [purchasePrice |-> args.purchasePrice,
            totalPurchaseCost |-> ret.propertyDetails.totalPurchaseCost,
            expectedRent |-> args.expectedRent,
            effectiveRent |-> ret.rentalDetails.effectiveRent,
            monthlyExpenses |-> ret.expenses.total])
    /\ ret.roi =
         calculateROI(
           [deposit |-> args.deposit,
            totalPurchaseCost |-> ret.propertyDetails.totalPurchaseCost,
            annualCashFlow |-> ret.cashFlow.annual,
            monthlyBondRepayment |->
              ret.financingDetails.monthlyBondRepayment,
            loanTermYears |-> args.loanTerm,
            annualAppreciationRate |-> Undefined])

\* a forecast with a deposit of 500,000 on 1,250,000 has been computed
C7_Witness ==
  /\ Returned("generatePropertyForecast")
  /\ args.purchasePrice = Num(1250000)
  /\ args.deposit = Num(500000)
  /\ args.interestRate = Dec(105, 1)
  /\ ret.financingDetails.loanAmount = Num(750000)
  /\ ret.propertyDetails.totalPurchaseCost = Dec(12806375, 1)
  /\ Gt(ret.financingDetails.monthlyBondRepayment, Num(0))

\* C8: in every forecast the breakeven is the one of an outflow of
\* deposit + purchaseCosts.total at cashFlow.monthly a month, and it is
\* the pair of Infinity exactly when cashFlow.monthly <= 0.
C8_ForecastBreakeven ==
  Returned("generatePropertyForecast") =>
    /\ ret.breakeven =
         calculateBreakeven(Add(args.deposit, ret.purchaseCosts.total),
                            ret.cashFlow.monthly)
    /\ (ret.breakeven = [months |-> PosInf, years |-> PosInf]) <=>
         Le(ret.cashFlow.monthly, Num(0))
    /\ (ret.breakeven.months = PosInf) <=> Le(ret.cashFlow.monthly, Num(0))

\* a forecast with a positive cash flow has been computed: 1,200,000 with a
\* deposit of 1,000,000 recovers 1,028,735 at about 3,219.54 a month in 320
\* months
C8_Witness ==
  /\ Returned("generatePropertyForecast")
  /\ args.purchasePrice = Num(1200000)
  /\ args.deposit = Num(1000000)
  /\ args.interestRate = Dec(1075, 2)
  /\ args.expectedRent = Num(9000)
  /\ Gt(ret.cashFlow.monthly, Num(3219))
  /\ ret.breakeven.months = Num(320)

\* the input with nothing but the thirteen fields that are read
ReadFields(propertyData) == [f \in ForecastFields |-> propertyData[f]]

\* tol, the slack allowed for the rounding of the arithmetic
RoundingSlack == Dec(1, 6)

\* C9: the forecast is the forecast of the thirteen fields that are read,
\* so that inputs that differ in another field only (an
\* annualAppreciationRate of the caller's) have the same forecast, and the
\* appreciation is compound at 5%: totalPurchaseCost * (1.05^years - 1) for
\* 5 and for 10 years.
C9_FixedAppreciationRate ==
  Returned("generatePropertyForecast") =>
    /\ Near(ret.roi.fiveYear.appreciation,
            Mul(ret.propertyDetails.totalPurchaseCost,
                Sub(PowNat(Dec(105, 2), 5), Num(1))),
            RoundingSlack)
    /\ Near(ret.roi.tenYear.appreciation,
            Mul(ret.propertyDetails.totalPurchaseCost,
                Sub(PowNat(Dec(105, 2), 10), Num(1))),
            RoundingSlack)
    /\ generatePropertyForecast(ReadFields(args)) = ret

\* a forecast has been computed for an input that carries an
\* annualAppreciationRate of 8
C9_Witness ==
  /\ Returned("generatePropertyForecast")
  /\ args.annualAppreciationRate = Num(8)
  /\ args.purchasePrice = Num(1200000)
  /\ ret.propertyDetails.totalPurchaseCost = Num(1228735)
  /\ Gt(ret.roi.fiveYear.appreciation, Num(339476))
  /\ Lt(ret.roi.fiveYear.appreciation, Num(339477))

(***************************************************************************)
(* Return on investment.                                                   *)
(***************************************************************************)
\* the projection of a result over 5 or 10 years
Horizon(r, years) == IF years = 5 THEN r.fiveYear ELSE r.tenYear

\* C10: for 5 and for 10 years calculateROI returns cashFlow =
\* annualCashFlow * years, equityBuild = monthlyBondRepayment * 12 * years
\* * 0.4 whatever the loan term, and totalReturn = appreciation + cashFlow
\* + equityBuild; the cash flow and the equity build of ten years are twice
\* the ones of five years.
C10_ROIComponents ==
  Returned("calculateROI") =>
    /\ \A years \in {5, 10} :
         /\ Horizon(ret, years).cashFlow =
              Mul(args.annualCashFlow, Num(years))
         /\ Horizon(ret, years).equityBuild =
              Mul(Mul(Mul(args.monthlyBondRepayment, Num(12)), Num(years)),
                  Dec(4, 1))
         /\ \A term \in Terms :
              Horizon(ret, years).equityBuild =
                calculateEquityBuild(args.monthlyBondRepayment, term,
                                     Num(years))
         /\ Horizon(ret, years).totalReturn =
              Add(Add(Horizon(ret, years).appreciation,
                      Horizon(ret, years).cashFlow),
                  Horizon(ret, years).equityBuild)
    /\ ret.tenYear.cashFlow = Mul(Num(2), ret.fiveYear.cashFlow)
    /\ ret.tenYear.equityBuild = Mul(Num(2), ret.fiveYear.equityBuild)

\* the return of 7,200 a year and 10,152.29 a month over a term of 30 years
\* has been projected
C10_Witness ==
  /\ Returned("calculateROI")
  /\ args.annualCashFlow = Num(7200)
  /\ args.monthlyBondRepayment = Dec(1015229, 2)
  /\ args.loanTermYears = Num(30)
  /\ ret.fiveYear.cashFlow = Num(36000)
  /\ ret.tenYear.equityBuild = Dec(48730992, 2)

\* a deposit that is not among the ones of the calls
OtherDeposit == Dec(12345678, 2)

C12_ForecastCashFlow ==
  Returned("generatePropertyForecast") =>
    /\ ret.cashFlow.monthly =
         Sub(Sub(ret.rentalDetails.effectiveRent, ret.expenses.total),
             ret.financingDetails.monthlyBondRepayment)
    /\ ret.cashFlow.annual = Mul(Num(12), ret.cashFlow.monthly)

\* the forecast of the form's initial data has a cash flow of about
\* -4,902.29 a month
C12_Witness ==
  /\ Returned("generatePropertyForecast")
  /\ RepaymentScenario
  /\ args.expectedRent = Num(9000)
  /\ ret.rentalDetails.effectiveRent = Num(8550)
  /\ ret.expenses.total = Num(3300)
  /\ Lt(ret.cashFlow.monthly, Num(-4902))
  /\ Gt(ret.cashFlow.monthly, Num(-4903))
  /\ Lt(ret.cashFlow.annual, Num(-58824))

(***************************************************************************)
(* Yields, costs, expenses, effective rent and attorney fees.              *)
(***************************************************************************)
\* C13: calculateYields returns four percentages: the gross yields are
\* expectedRent * 12 over purchasePrice and over totalPurchaseCost, times
\* 100 (rent before vacancy and expenses); the net yields are
\* (effectiveRent - monthlyExpenses) * 12 over the same two, times 100; a
\* bond repayment is never subtracted.
C13_Yields ==
  Returned("calculateYields") =>
    /\ DOMAIN ret = {"grossYieldOnPrice", "grossYieldOnInvestment",
                     "netYieldOnPrice", "netYieldOnInvestment"}
    /\ ret.grossYieldOnPrice =
         Mul(Div(Mul(args.expectedRent, Num(12)), args.purchasePrice),
             Num(100))
    /\ ret.grossYieldOnInvestment =
         Mul(Div(Mul(args.expectedRent, Num(12)), args.totalPurchaseCost),
             Num(100))
    /\ ret.netYieldOnPrice =
         Mul(Div(Mul(Sub(args.effectiveRent, args.monthlyExpenses), Num(12)),
                 args.purchasePrice), Num(100))
    /\ ret.netYieldOnInvestment =
         Mul(Div(Mul(Sub(args.effectiveRent, args.monthlyExpenses), Num(12)),
                 args.totalPurchaseCost), Num(100))
    /\ calculateYields([args EXCEPT !.monthlyBondRepayment = Num(0)]) = ret

\* the yields of 9,000 a month (8,550 effective, 3,300 expenses) on
\* 1,200,000 have been computed next to a bond repayment of 10,152.29:
\* 9% gross and 5.25% net on the price
C13_Witness ==
  /\ Returned("calculateYields")
  /\ args.purchasePrice = Num(1200000)
  /\ args.expectedRent = Num(9000)
  /\ args.effectiveRent = Num(8550)
  /\ args.monthlyExpenses = Num(3300)
  /\ args.monthlyBondRepayment = Dec(1015229, 2)
  /\ ret.grossYieldOnPrice = Num(9)
  /\ ret.netYieldOnPrice = Dec(525, 2)

\* C14: the total of calculateTotalPurchaseCosts is transferDuty +
\* attorneyFees + 1500 + 1800, with the duty and the fees of the same
\* price; the total of calculateMonthlyExpenses is levies + ratesAndTaxes +
\* maintenance, with maintenance = purchasePrice * maintenancePercentage /
\* 100 / 12.
C14_AssemblerTotals ==
  /\ Returned("calculateTotalPurchaseCosts") =>
       /\ ret.transferDuty = calculateTransferDuty(args.purchasePrice)
       /\ ret.attorneyFees = calculateAttorneyFees(args.purchasePrice)
       /\ ret.deedsOfficeRegistration = Num(1500)
       /\ ret.electronicallyFacilitatedTransfer = Num(1800)
       /\ ret.total =
            Add(Add(Add(ret.transferDuty, ret.attorneyFees), Num(1500)),
                Num(1800))
  /\ Returned("calculateMonthlyExpenses") =>
       /\ ret.levies = args.monthlyLevies
       /\ ret.ratesAndTaxes = args.monthlyRates
       /\ Near(ret.maintenance,
               Div(Div(Mul(args.purchasePrice, args.maintenancePercentage),
                       Num(100)), Num(12)),
               RoundingSlack)
       /\ ret.total =
            Add(Add(ret.levies, ret.ratesAndTaxes), ret.maintenance)

\* the costs of a purchase at 1,200,000 have been assembled: 6,000 duty,
\* 19,435 fees and the two fixed amounts, 28,735 in total
C14_Witness ==
  /\ Returned("calculateTotalPurchaseCosts")
  /\ args.purchasePrice = Num(1200000)
  /\ ret.transferDuty = Num(6000)
  /\ ret.attorneyFees = Num(19435)
  /\ ret.total = Num(28735)

\* C15: calculateEffectiveRentalIncome(rent, vacancy) = rent * (1 -
\* vacancy / 100); it is rent for a vacancy of 0, 0 for a vacancy of 100,
\* and negative for a positive rent and a vacancy above 100.
C15_EffectiveRent ==
  Returned("calculateEffectiveRentalIncome") =>
    /\ ret = Mul(args.expectedRent,
                 Sub(Num(1), Div(args.vacancyRate, Num(100))))
    /\ args.vacancyRate = Num(0) => ret = args.expectedRent
    /\ args.vacancyRate = Num(100) => ret = Num(0)
    /\ (Gt(args.vacancyRate, Num(100)) /\ Gt(args.expectedRent, Num(0))) =>
         Lt(ret, Num(0))

\* a rent of 9,000 at a vacancy of 150 has given -4,500
C15_Witness ==
  /\ Returned("calculateEffectiveRentalIncome")
  /\ args.expectedRent = Num(9000)
  /\ args.vacancyRate = Num(150)
  /\ ret = Num(-4500)

\* the floors, fixed amounts and marginal rates of the five fee bands
FeeFloors == <<Num(0), Num(100000), Num(500000), Num(1000000), Num(5000000)>>

FeeBases == <<Num(4500), Num(4500), Num(10500), Num(15500), Num(43500)>>

FeeRates == <<Num(0), Dec(15, 3), Dec(1, 2), Dec(7, 3), Dec(3, 3)>>

\* price lies in band i: above the floor of the band (the first band has
\* none) and at most the floor of the next (the last band has none)
InFeeBand(price, i) ==
  /\ i = 1 \/ Gt(price, FeeFloors[i])
  /\ i = 5 \/ Le(price, FeeFloors[i + 1])

\* C16: calculateAttorneyFees(price) is 1.15 times the base fee of the
\* band of the price, the band's fixed amount plus its rate on the excess
\* over its floor, every upper bound being inclusive: 100,000 is charged
\* in the first band, 500,000 in the second, 1,000,000 in the third and
\* 5,000,000 in the fourth.
C16_AttorneyFees ==
  Returned("calculateAttorneyFees") =>
    /\ \A i \in 1..5 :
         InFeeBand(args.purchasePrice, i) =>
           /\ path = BandName(i)
           /\ ret = Mul(Add(FeeBases[i],
                            Mul(Sub(args.purchasePrice, FeeFloors[i]),
                                FeeRates[i])),
                        Dec(115, 2))
    /\ \E i \in 1..5 : InFeeBand(args.purchasePrice, i)
    /\ args.purchasePrice = Num(100000) =>
         Near(ret, Num(5175), RoundingSlack)
    /\ args.purchasePrice = Num(500000) =>
         Near(ret, Num(12075), RoundingSlack)
    /\ args.purchasePrice = Num(1000000) =>
         Near(ret, Num(17825), RoundingSlack)
    /\ args.purchasePrice = Num(5000000) =>
         Near(ret, Num(50025), RoundingSlack)

\* the fee of 500,000 has been computed in the second band
C16_Witness ==
  /\ Returned("calculateAttorneyFees")
  /\ args.purchasePrice = Num(500000)
  /\ path = "band2"
  /\ Near(ret, Num(12075), RoundingSlack)

(***************************************************************************)
(* The investment summary.                                                 *)
(***************************************************************************)
CashFlowFragments ==
  <<"This property is cash flow positive, generating a healthy monthly surplus. ",
    "This property is slightly cash flow positive, covering all expenses with a small margin. ",
    "This property is slightly cash flow negative, requiring a small monthly contribution. ",
    "This property is significantly cash flow negative, requiring substantial monthly contributions. ">>

YieldFragments ==
  <<"The net yield is excellent compared to South African market averages. ",
    "The net yield is good for the South African market. ",
    "The net yield is average for the South African market. ",
    "The net yield is below average for the South African market. ">>

ROIFragments ==
  <<"The 10-year return on investment projection is very strong. ",
    "The 10-year return on investment projection is good. ",
    "The 10-year return on investment projection is moderate. ",
    "The 10-year return on investment projection is below average. ">>

BreakevenFragments ==
  <<"You should recover your initial investment relatively quickly. ",
    "The breakeven period is reasonable for a long-term investment. ",
    "The breakeven period is quite long, making this a very long-term investment. ",
    "The breakeven period extends beyond 20 years, raising concerns about this investment. ">>

ClosingSentences ==
  <<"Overall, this property appears to be a strong investment opportunity.",
    "Overall, this property appears to be a reasonable investment opportunity.",
    "This property may be worth considering primarily for its positive cash flow, despite modest long-term returns.",
    "This property presents some investment challenges and may require careful consideration of future market trends and personal investment goals.">>

\* the rung of a ladder of three thresholds, tried from the highest down:
\* the first that x exceeds, or the fourth
RungAbove(x, t1, t2, t3) ==
  IF Gt(x, Num(t1)) THEN 1
  ELSE IF Gt(x, Num(t2)) THEN 2
  ELSE IF Gt(x, Num(t3)) THEN 3
  ELSE 4

\* the rung of the breakeven ladder, tried from the best down: the first
\* number of years that x stays under, or the fourth
RungUnder(x, t1, t2, t3) ==
  IF Lt(x, Num(t1)) THEN 1
  ELSE IF Lt(x, Num(t2)) THEN 2
  ELSE IF Lt(x, Num(t3)) THEN 3
  ELSE 4

\* one value on each rung of the four ladders
CashFlowOnRung == <<Num(600), Num(100), Num(-100), Num(-600)>>

YieldOnRung == <<Num(9), Num(7), Num(5), Num(3)>>

ROIOnRung == <<Num(16), Num(12), Num(8), Num(5)>>

YearsOnRung == <<Num(3), Num(7), Num(15), PosInf>>

\* summary s is summary r with fragment i replaced by frag (the closing
\* sentence apart)
SameFragmentsBut(s, r, i, frag) ==
  /\ Len(s) = 5
  /\ \A j \in 1..4 : s[j] = IF j = i THEN frag ELSE r[j]

\* C17: the summary is five sentences in a fixed order: the cash-flow
\* fragment of cashFlow.monthly (> 500, > 0, > -500), the yield fragment of
\* yields.netYieldOnInvestment (> 8, > 6, > 4), the ROI fragment of
\* roi.tenYear.annualizedROI (> 15, > 10, > 7), the breakeven fragment of
\* breakeven.years (< 5, < 10, < 20) and one of the four closing
\* sentences, each ladder tried from its first rung down; a change of one
\* of the four values changes the fragment of its ladder only, so that
\* every combination of fragments is produced.
C17_SummaryLadders ==
  Returned("generateInvestmentSummary") =>
    /\ Len(ret) = 5
    /\ ret[1] = CashFlowFragments[RungAbove(args.cashFlow.monthly,
                                            500, 0, -500)]
    /\ ret[2] = YieldFragments[RungAbove(args.yields.netYieldOnInvestment,
                                         8, 6, 4)]
    /\ ret[3] = ROIFragments[RungAbove(args.roi.tenYear.annualizedROI,
                                       15, 10, 7)]
    /\ ret[4] = BreakevenFragments[RungUnder(args.breakeven.years,
                                             5, 10, 20)]
    /\ \E k \in 1..4 : ret[5] = ClosingSentences[k]
    /\ \A k \in 1..4 :
         /\ SameFragmentsBut(
              generateInvestmentSummary(
                [args EXCEPT !.cashFlow.monthly = CashFlowOnRung[k]]),
              ret, 1, CashFlowFragments[k])
         /\ SameFragmentsBut(
              generateInvestmentSummary(
                [args EXCEPT !.yields.netYieldOnInvestment = YieldOnRung[k]]),
              ret, 2, YieldFragments[k])
         /\ SameFragmentsBut(
              generateInvestmentSummary(
                [args EXCEPT !.roi.tenYear.annualizedROI = ROIOnRung[k]]),
              ret, 3, ROIFragments[k])
         /\ SameFragmentsBut(
              generateInvestmentSummary(
                [args EXCEPT !.breakeven.years = YearsOnRung[k]]),
              ret, 4, BreakevenFragments[k])

\* a summary has been written that puts the worst cash-flow fragment next
\* to the best breakeven fragment
C17_Witness ==
  /\ Returned("generateInvestmentSummary")
  /\ args = SummaryInput(Num(-600), Num(9), Num(-5), Num(3))
  /\ ret = <<CashFlowFragments[4], YieldFragments[1], ROIFragments[4],
             BreakevenFragments[1], ClosingSentences[4]>>

\* the four conditions of the best summary
BestOnAllLadders(f) ==
  /\ Gt(f.cashFlow.monthly, Num(500))
  /\ Gt(f.yields.netYieldOnInvestment, Num(8))
  /\ Gt(f.roi.tenYear.annualizedROI, Num(15))
  /\ Lt(f.breakeven.years, Num(5))

\* the sentences with "healthy monthly surplus", "excellent compared to",
\* "very strong", "recover your initial investment relatively quickly" and
\* the closing sentence of a strong opportunity
BestSummary ==
  <<"This property is cash flow positive, generating a healthy monthly surplus. ",
    "The net yield is excellent compared to South African market averages. ",
    "The 10-year return on investment projection is very strong. ",
    "You should recover your initial investment relatively quickly. ",
    "Overall, this property appears to be a strong investment opportunity.">>

\* C18: with cashFlow.monthly > 500, netYieldOnInvestment > 8, the 10-year
\* annualizedROI > 15 and breakeven.years < 5 (600, 9, 16 and 3 for one)
\* the summary is made of the four best fragments and the closing sentence
\* "Overall, this property appears to be a strong investment opportunity."
C18_BestSummary ==
  /\ (Returned("generateInvestmentSummary") /\ BestOnAllLadders(args)) =>
       ret = BestSummary
  /\ (Returned("generatePropertyForecast") /\ BestOnAllLadders(ret)) =>
       ret.investmentSummary = BestSummary

\* the summary of 600, 9, 16 and 3 has been written
C18_Witness ==
  /\ Returned("generateInvestmentSummary")
  /\ args = SummaryInput(Num(600), Num(9), Num(16), Num(3))
  /\ ret = BestSummary

(***************************************************************************)
(* Purity and totality of the forecast.                                    *)
(***************************************************************************)
\* the calls of generatePropertyForecast in the log
ForecastCalls ==
  {i \in 1..Len(log) : log[i].fn = "generatePropertyForecast"}

ForecastSections ==
  {"propertyDetails", "financingDetails", "purchaseCosts", "rentalDetails",
   "expenses", "yields", "cashFlow", "roi", "breakeven", "investmentSummary"}

\* a value of the type number: finite, an infinity or NaN
IsNumber(x) == DOMAIN x = {"k", "s", "m"} /\ x.k \in {"fin", "inf", "nan"}

\* every field of record r is a number
AllNumbers(r) == \A f \in DOMAIN r : IsNumber(r[f])

\* the input breaks purchase price > deposit >= 0, the positive term, or
\* the range of a rate or percentage
OutsideInvariant(a) ==
  \/ Le(a.purchasePrice, Num(0))
  \/ Ge(a.deposit, a.purchasePrice)
  \/ Lt(a.deposit, Num(0))
  \/ Le(a.loanTerm, Num(0))
  \/ Gt(a.vacancyRate, Num(100))
  \/ Lt(a.interestRate, Num(0))
  \/ Lt(a.maintenancePercentage, Num(0))

\* C20: generatePropertyForecast does not validate and has no error
\* outcome: for every input of numbers, the ones with purchase price <= 0,
\* deposit >= purchase price, loan term 0, vacancy > 100 or negative rates
\* included, it returns a forecast with its ten sections, complete, and
\* with the loan amount purchasePrice - deposit as it comes.
C20_ForecastTotal ==
  Returned("generatePropertyForecast") =>
    /\ DOMAIN ret = ForecastSections
    /\ DOMAIN ret.propertyDetails =
         {"propertyType", "location", "bedrooms", "bathrooms",
          "purchasePrice", "totalPurchaseCost"}
    /\ DOMAIN ret.financingDetails =
         {"deposit", "loanAmount", "interestRate", "loanTerm",
          "monthlyBondRepayment"}
    /\ DOMAIN ret.purchaseCosts =
         {"transferDuty", "attorneyFees", "deedsOfficeRegistration",
          "electronicallyFacilitatedTransfer", "total"}
    /\ DOMAIN ret.rentalDetails =
         {"expectedRent", "vacancyRate", "effectiveRent"}
    /\ DOMAIN ret.expenses =
         {"levies", "ratesAndTaxes", "maintenance", "total"}
    /\ DOMAIN ret.yields =
         {"grossYieldOnPrice", "grossYieldOnInvestment", "netYieldOnPrice",
          "netYieldOnInvestment"}
    /\ DOMAIN ret.cashFlow = {"monthly", "annual"}
    /\ DOMAIN ret.roi = {"fiveYear", "tenYear"}
    /\ \A years \in {5, 10} :
         DOMAIN Horizon(ret.roi, years) =
           {"appreciation", "cashFlow", "equityBuild", "totalReturn", "roi",
            "annualizedROI"}
    /\ DOMAIN ret.breakeven = {"months", "years"}
    /\ Len(ret.investmentSummary) = 5
    /\ AllNumbers(ret.financingDetails) /\ AllNumbers(ret.purchaseCosts)
    /\ AllNumbers(ret.rentalDetails) /\ AllNumbers(ret.expenses)
    /\ AllNumbers(ret.yields) /\ AllNumbers(ret.cashFlow)
    /\ AllNumbers(ret.roi.fiveYear) /\ AllNumbers(ret.roi.tenYear)
    /\ AllNumbers(ret.breakeven)
    /\ ret.financingDetails.loanAmount =
         Sub(args.purchasePrice, args.deposit)
    /\ path = "straight"

\* a forecast has been returned for a loan term of 0: the repayment is
\* Infinity, the cash flow -Infinity and the 10-year ROI NaN
C20_Witness ==
  /\ Returned("generatePropertyForecast")
  /\ OutsideInvariant(args)
  /\ args.loanTerm = Num(0)
  /\ args.interestRate = Dec(1075, 2)
  /\ args.deposit = Num(200000)
  /\ DOMAIN ret = ForecastSections
  /\ ret.financingDetails.monthlyBondRepayment = PosInf
  /\ ret.cashFlow.monthly = NegInf
  /\ ret.roi.tenYear.roi = NaN
  /\ ret.breakeven.months = PosInf

(***************************************************************************)
(* The chart series against the projections of calculateROI.               *)
(***************************************************************************)
\* a and b are the same value, up to tol when they are finite
Agree(a, b, tol) == IF IsFin(a) /\ IsFin(b) THEN Near(a, b, tol) ELSE a = b

\* the value of the chart point of `year`
ChartValue(data, year) == data[year + 1].value

\* 1.05^year - 1
GrowthOver(year) == Sub(Pow(Dec(105, 2), Num(year)), Num(1))

\* the point of `year` of the chart of forecast f, against the projection
\* h of calculateROI over the same years
ChartAgainstHorizon(data, f, year, h) ==
  /\ data[year + 1].year = year
  /\ Agree(ChartValue(data, year),
           Add(Add(Mul(f.cashFlow.annual, Num(year)),
                   Mul(Mul(Mul(f.financingDetails.monthlyBondRepayment,
                               Num(12)), Num(year)), Dec(4, 1))),
               Mul(f.propertyDetails.purchasePrice, GrowthOver(year))),
           RoundingSlack)
  /\ Mul(f.cashFlow.annual, Num(year)) = h.cashFlow
  /\ ChartEquityBuild(f, year) = h.equityBuild
  /\ Agree(h.appreciation,
           Mul(f.propertyDetails.totalPurchaseCost, GrowthOver(year)),
           RoundingSlack)
  /\ Agree(ChartValue(data, year),
           Sub(h.totalReturn, Mul(f.purchaseCosts.total, GrowthOver(year))),
           RoundingSlack)

Submitted == submissions' = submissions + 1

\* a step in which the timeout `timer` fires
Fired(timer) == timer \in timers /\ timers' = timers \ {timer}

\* the data of a submission as they were when it was made: the form data
\* that were submitted, or the mock data of the URL that was submitted
SubmittedData(timer) ==
  IF timer.handler = "handlePropertySubmit" THEN timer.propertyData
  ELSE MockPropertyData(IF Includes(timer.url, <<"property24">>)
                        THEN "Sandton, Johannesburg"
                        ELSE "Rondebosch, Cape Town")

\* a submission sets isLoading, leaves forecast and activeTab as they are
\* and starts one timeout, which holds the form data or the URL of that
\* moment
SubmissionStep ==
  Submitted =>
    /\ isLoading'
    /\ UNCHANGED <<forecast, activeTab>>
    /\ \E timer \in timers' :
         /\ timers' = timers \cup {timer}
         /\ timer \notin timers
         /\ timer.id = submissions'
         /\ \/ /\ timer.handler = "handlePropertySubmit"
               /\ timer.propertyData = formData
               /\ Mounted(activeTab, inputMethod) = "PropertyInputForm"
            \/ /\ timer.handler = "handleUrlSubmit"
               /\ timer.url = url
               /\ Mounted(activeTab, inputMethod) = "PropertyUrlInput"

\* until a timeout fires the forecast stays, and the tab changes by the
\* buttons of the user only
BeforeTheTimer ==
  (\A timer \in timers : ~Fired(timer)) =>
    /\ UNCHANGED <<forecast, shown>>
    /\ activeTab' # activeTab =>
         \/ ClickInputMethod
         \/ ClickForecastResults
         \/ handleBackToInput

\* when a timeout fires, the forecast of the data of the submission is
\* set, the results are shown and isLoading is reset, in that one step
TimerStep ==
  \A timer \in timers :
    Fired(timer) =>
      /\ forecast' = ForecastResults(SubmittedData(timer))
      /\ forecast' # Null
      /\ activeTab' = "results"
      /\ isLoading' = FALSE
      /\ shown' = timer

\* C22: a submission (of the form or of a URL) sets isLoading at once and
\* leaves forecast and activeTab as they are; until its timeout fires the
\* forecast stays; when the timeout fires, in one step forecast becomes
\* generatePropertyForecast of the data as they were when the submission
\* was made (edits and changes of tab during the delay have no effect on
\* it), activeTab becomes 'results' whatever tab the user is on, and
\* isLoading becomes false. If the callback of a pending timeout is
\* eventually run, every submission is followed by a state with isLoading
\* = false and activeTab = 'results' that shows the forecast of the latest
\* submission.
C22_SubmissionAndTimer ==
  /\ [][SubmissionStep /\ BeforeTheTimer /\ TimerStep]_vars
  /\ (timers # {}) ~>
       (~isLoading /\ activeTab = "results" /\ shown.id = submissions)

\* the second submission, of a form that was edited to 950,000, has been
\* made and its forecast is shown
C22_Witness ==
  /\ ~isLoading
  /\ activeTab = "results"
  /\ shown.id = 2
  /\ shown.handler = "handlePropertySubmit"
  /\ shown.propertyData.purchasePrice = Num(950000)
  /\ forecast # Null
  /\ forecast.propertyDetails.purchasePrice = Num(950000)
  /\ formData = DefaultFormData

(***************************************************************************)
(* The application shell: the URL path.                                    *)
(***************************************************************************)
\* a URL that parses, whose host name contains 'property24.com' or
\* 'privateproperty.co.za' and whose path is longer than "/"
AcceptedUrl(text) ==
  /\ NewURL(text).ok
  /\ \/ Includes(NewURL(text).hostname, <<"property24", ".com">>)
     \/ Includes(NewURL(text).hostname, <<"privateproperty", ".co.za">>)
  /\ TextLength(NewURL(text).pathname) > 1

\* the forecast of the mock data
MockForecast == ForecastResults(MockPropertyData("Sandton, Johannesburg"))

\* the forecast f is the forecast of the mock data, but for the location,
\* which is taken from the text of the URL
MockForecastFor(f, text) ==
  /\ f = [MockForecast EXCEPT
            !.propertyDetails.location =
              IF Includes(text, <<"property24">>)
              THEN "Sandton, Johannesburg" ELSE "Rondebosch, Cape Town"]
  /\ f.propertyDetails.purchasePrice = Num(1250000)
  /\ f.financingDetails.deposit = Num(125000)
  /\ f.financingDetails.interestRate = Dec(105, 1)
  /\ f.financingDetails.loanTerm = Num(20)
  /\ f.expenses.levies = Num(1800)
  /\ f.expenses.ratesAndTaxes = Num(950)
  /\ f.rentalDetails.expectedRent = Num(8500)
  /\ f.rentalDetails.vacancyRate = Num(5)
  /\ Near(f.expenses.maintenance,
          Div(Mul(Num(1250000), Dec(1, 2)), Num(12)), RoundingSlack)

\* C23: the URL path is mocked: the forecast that handleUrlSubmit produces
\* for an accepted URL is the forecast of purchasePrice 1,250,000, deposit
\* 125,000, rate 10.5, term 20, levies 1800, rates 950, rent 8500,
\* maintenance 1 and vacancy 5 in every field but propertyDetails.location,
\* which is 'Sandton, Johannesburg' when the text of the URL contains
\* 'property24' and 'Rondebosch, Cape Town' otherwise, so that the
\* forecasts of two accepted URLs differ in the location at most; and the
\* URL component calls onSubmit only for a URL that parses, whose host name
\* contains 'property24.com' or 'privateproperty.co.za' and whose path is
\* longer than "/".
C23_UrlPathMocked ==
  /\ \A timer \in timers :
       timer.handler = "handleUrlSubmit" => AcceptedUrl(timer.url)
  /\ shown.handler = "handleUrlSubmit" =>
       /\ AcceptedUrl(shown.url)
       /\ MockForecastFor(forecast, shown.url)

\* the forecast of a privateproperty.co.za listing whose path contains
\* 'property24' is shown, with the location 'Sandton, Johannesburg'
C23_Witness ==
  /\ shown.handler = "handleUrlSubmit"
  /\ shown.url = <<"https://", "www.", "privateproperty", ".co.za", "/",
                   "property24">>
  /\ forecast # Null
  /\ forecast.propertyDetails.location = "Sandton, Johannesburg"
  /\ forecast.propertyDetails.purchasePrice = Num(1250000)

(***************************************************************************)
(* The application shell: the results tab.                                 *)
(***************************************************************************)
\* the results tab is entered by the callback of a timeout, which sets the
\* forecast, or by the Forecast Results button with a forecast
EntersResults ==
  (activeTab # "results" /\ activeTab' = "results") =>
    \/ (\E timer \in timers : Fired(timer)) /\ forecast' # Null
    \/ ClickForecastResults /\ forecast # Null

\* a forecast is never set back to null
ForecastStays == forecast # Null => forecast' # Null

\* C24: in every reachable state of the shell, activeTab = 'results'
\* implies that forecast is not null: the results tab is entered only when
\* a timeout completes (which sets the forecast) or by the Forecast Results
\* button, which does nothing while forecast is null; and once forecast is
\* not null, no action (Back to Input and the change of the input method
\* included) sets it back to null.
C24_ResultsHaveForecast ==
  /\ [](activeTab = "results" => forecast # Null)
  /\ [][EntersResults /\ ForecastStays]_vars

\* the results of the first submission are shown again, by the Forecast
\* Results button, while the timeout of the second is pending
C24_Witness ==
  /\ activeTab = "results"
  /\ forecast # Null
  /\ shown.id = 1
  /\ \E timer \in timers : timer.id = 2

(***************************************************************************)
(* The application shell: one computation at a time.                       *)
(***************************************************************************)
\* no submission is made while isLoading is set
NoSubmissionWhileLoading == isLoading => ~Submitted

\* the timeout that fires is that of the latest submission, which was
\* made after that of the forecast shown before
LatestResultOnly ==
  \A timer \in timers :
    Fired(timer) =>
      /\ timer.id = submissions
      /\ timer.id > shown.id
      /\ shown'.id = timer.id

\* C25: while isLoading is true no further submission is accepted from
\* either input component, whichever tab the user moves to (both submit
\* buttons are disabled by the one isLoading flag), so that at most one
\* delayed computation of a forecast is pending at any time, isLoading is
\* true exactly while one is pending, and the result of an earlier
\* submission never replaces the result of a later one.
C25_OneComputationPending ==
  /\ [](Cardinality(timers) <= 1)
  /\ [](isLoading <=> timers # {})
  /\ [](shown.id <= submissions)
  /\ [][NoSubmissionWhileLoading /\ LatestResultOnly]_vars

\* the form has been submitted and the user has moved to the URL tab and
\* typed a listing URL that is valid: the timeout of the form is pending
\* and only isLoading disables the submit button
C25_Witness ==
  /\ isLoading
  /\ Mounted(activeTab, inputMethod) = "PropertyUrlInput"
  /\ isValid
  /\ url = <<"https://", "www.", "property24", ".com", "/", "for-sale">>
  /\ UrlSubmitDisabled(isValid, isLoading)
  /\ \E timer \in timers : timer.handler = "handlePropertySubmit"

(***************************************************************************)
(* The closing sentence against the fragments.                             *)
(***************************************************************************)
\* the closing sentence of summary s agrees with its fragments, monthly
\* being the cash flow that the summary was written from
ClosingAgrees(s, monthly) ==
  /\ s[5] = ClosingSentences[1] =>
       /\ s[2] \in {YieldFragments[1], YieldFragments[2]}
       /\ s[3] \in {ROIFragments[1], ROIFragments[2]}
  /\ s[5] = ClosingSentences[2] =>
       /\ s[2] # YieldFragments[4]
       /\ s[3] # ROIFragments[4]
  /\ s[5] = ClosingSentences[3] =>
       s[1] \in {CashFlowFragments[1], CashFlowFragments[2]}
  /\ s[5] = ClosingSentences[4] =>
       /\ s[1] \in {CashFlowFragments[3], CashFlowFragments[4]}
       /\ monthly.k # "nan" => Le(monthly, Num(0))

\* C26: the closing sentence never contradicts the fragments: "strong
\* investment opportunity" comes only with the excellent or good yield
\* fragment and the very strong or good ROI fragment, "reasonable
\* investment opportunity" never with a below-average yield or ROI
\* fragment, "positive cash flow" only with one of the two fragments of a
\* positive cash flow, and "investment challenges" only with one of the two
\* fragments of a negative cash flow (a cashFlow.monthly that is a number
\* is then <= 0). It holds of the summaries written directly and of those
\* inside a forecast.
C26_ClosingAgrees ==
  /\ Returned("generateInvestmentSummary") =>
       ClosingAgrees(ret, args.cashFlow.monthly)
  /\ Returned("generatePropertyForecast") =>
       ClosingAgrees(ret.investmentSummary, ret.cashFlow.monthly)

\* a summary has been written that closes on the investment challenges
\* next to the fragment of a slightly negative cash flow and the excellent
\* yield fragment
C26_Witness ==
  /\ Returned("generateInvestmentSummary")
  /\ args = SummaryInput(Num(0), Num(9), Num(7), Num(3))
  /\ ret[1] = CashFlowFragments[3]
  /\ ret[2] = YieldFragments[1]
  /\ ret[5] = ClosingSentences[4]

====
